---- MODULE Spec2Model ----
(***************************************************************************)
(* npmBridge: the refresh orchestrator (scripts/update_all.py,             *)
(* scripts/update_recent.py), the integrity checker and the repair flow    *)
(* (scripts/check_broken.py, scripts/fix_broken.py), the single-package    *)
(* update (scripts/update_single.py), the library installer                *)
(* (scripts/lib/packages.py) and the diff / freeze / sync snapshotter      *)
(* (scripts/create_diff.py, scripts/sync_frozen.py), as state machines.    *)
(***************************************************************************)
EXTENDS Integers, Sequences, FiniteSets, TLC

\* ------------------------------------------------------------- bounds
\* work-list sizes: every length up to MaxPackagesAll for both scripts, and one long
\* list (longer than the flush interval) for update_recent, which keeps counters
\* only; update_all also keeps the list of errors, whose orders multiply the states
MaxPackages == 11
MaxPackagesAll == 3
MaxJobs == 2
\* modification times are 1..MaxTime
MaxTime == 3
\* the modification time of the files storage holds at first
InitialTime == 2
\* events of a behaviour of the snapshotter: writes and deletions the registry makes
\* in storage, runs of create_diff.py and runs of sync_frozen.py
MaxEvents == 4
\* the number of times one path is repaired
MaxAttempts == 3

\* ------------------------------------------------- program constants
\* ProgressTracker.increment: "if self.current % 10 == 0 or ..."
FlushEvery == 10
\* ProgressTracker._write_progress: "errors": self.errors[-20:]
RecentErrors == 20

\* check_broken.py, ProgressTracker.increment: "if self.current % 50 == 0 or ..."
CheckFlushEvery == 50

NoDoc == [none |-> TRUE]
Scripts == {"update_all", "update_recent"}
\* the scripts that run their units in a ThreadPoolExecutor
PoolScripts == Scripts \cup {"check_broken"}
Outcomes == {"ok", "nonzero", "timeout", "exception"}
Workers == 1..MaxJobs

VARIABLES
    script,        \* which refresh script runs
    packages,      \* len(packages): the work list is 1..packages
    PARALLEL_JOBS, \* pool width
    mainPc,        \* main(): "start", "pool", "done"
    nextPkg,       \* next work item the executor hands to a free worker thread
    worker,        \* per pool thread: pc, package, success, error_msg, loaded counters
    tracker,       \* ProgressTracker fields
    trackerLock,   \* ProgressTracker.lock: 0 free, else the holding thread
    progressDoc,   \* PROGRESS_FILE: the last document persisted, or NoDoc
    refreshStatus, \* STATUS_FILE of the refresh run
    summary,       \* the JSON printed by main(), or NoDoc
    precondition,  \* "ok", or which required directory, file or argument is missing
    sinkFaulty,    \* whether a write of STATUS_FILE or PROGRESS_FILE can fail
    exitCode,      \* the exit code of the process, -1 while it runs
    temp_dirs,     \* directories made by tempfile.mkdtemp() that still exist
    fix,           \* fix_broken.py main(): i, fixed, failed and the place in the loop
    install,       \* lib/packages.py install_package: its inputs, locals and place
    calls,         \* history: calls of tracker.increment made so far, per work item
    unitsFailed,   \* history: units whose outcome was a failure
    invalid,       \* the archives of the work list that are not a readable tar.gz
    broken_files,  \* check_broken.py main(): the list the threads append to
    BROKEN_FILE,   \* the persisted broken-archive list: whether it exists, its lines
    scan,          \* a storage listing and the package list a scanner made of it
    repair,        \* repeated reinstall_package attempts on one archive path
    extract        \* an archive path and what extract_package_info made of it

VARIABLES
    storage,      \* STORAGE_DIR: relative path -> file version (content, mtime) or Absent
    frozen,       \* FROZEN_DIR: the same
    frozenExists, \* whether the FROZEN_DIR directory exists
    archives,     \* DIFF_ARCHIVES_DIR/<id>.tar.gz: members and whether it was closed
    manifests,    \* DIFF_ARCHIVES_DIR/<id>_files.json
    regOps,       \* writes and deletions made by the registry so far
    diff,         \* the create_diff.py process: pc, DIFF_ID, diff_files, files_info, i
    diffStatus,   \* STATUS_FILE of create_diff.py
    diffResult,   \* the JSON printed by create_diff.py
    diffRuns,     \* create_diff.py invocations so far
    sync,         \* the sync_frozen.py process: pc, DIFF_ID, files_info, idx, copied, failed
    syncStatus,   \* STATUS_FILE of sync_frozen.py
    syncResult,   \* the JSON printed by sync_frozen.py
    syncRuns,     \* sync_frozen.py invocations so far
    emitted,      \* history: the (path, version) pairs packed into an emitted archive
    prevSync      \* history: the previous completed sync run and the frozen tree it left

diffVars == <<storage, frozen, frozenExists, archives, manifests, regOps, diff, diffStatus,
              diffResult, diffRuns, sync, syncStatus, syncResult, syncRuns, emitted,
              prevSync>>

refreshVars == <<script, packages, PARALLEL_JOBS, mainPc, nextPkg, worker, tracker,
                 trackerLock, progressDoc, refreshStatus, summary, precondition,
                 sinkFaulty, exitCode, temp_dirs, fix, install, calls, unitsFailed,
                 invalid, broken_files, BROKEN_FILE, scan, repair, extract>>

\* the state of the integrity check's broken-archive list
checkerVars == <<invalid, broken_files, BROKEN_FILE>>

\* the state of the scanners, of the repeated repair and of extract_package_info
auxVars == <<scan, repair, extract>>

vars == <<refreshVars, diffVars>>

\* ------------------------------------------------------ refresh: helpers
ListSizes(s) ==
    IF s = "update_recent" THEN (0..MaxPackagesAll) \cup {MaxPackages} ELSE 0..MaxPackagesAll

IdleWorker == [pc |-> "idle", pkg |-> 0, success |-> FALSE, error_msg |-> "",
               cur |-> 0, succ |-> 0, fail |-> 0]

\* ProgressTracker.__init__; the checker's tracker counts in broken
NewTracker(total) ==
    [current |-> 0, total |-> total, current_package |-> 0,
     success |-> 0, failed |-> 0, errors |-> <<>>, broken |-> 0]

\* errors[-20:]
LastN(s, n) == IF Len(s) <= n THEN s ELSE SubSeq(s, Len(s) - n + 1, Len(s))

\* ProgressTracker._write_progress: the document written to PROGRESS_FILE
ProgressDocument(t) ==
    IF script = "check_broken"
    THEN [current |-> t.current, total |-> t.total, broken |-> t.broken,
          currentFile |-> t.current_package]
    ELSE [current |-> t.current, total |-> t.total, success |-> t.success,
          failed |-> t.failed, currentPackage |-> t.current_package,
          errors |-> IF script = "update_all" THEN LastN(t.errors, RecentErrors)
                     ELSE <<>>]

\* a tracker that flushes on the interval only
ShouldFlushOnInterval(t) ==
    t.current % (IF script = "check_broken" THEN CheckFlushEvery ELSE FlushEvery) = 0

\* the flush condition of ProgressTracker.increment
ShouldFlush(t) ==
    \/ t.current % (IF script = "check_broken" THEN CheckFlushEvery ELSE FlushEvery) = 0
    \/ t.current = t.total

\* error_msg of install_package on each exit path; update_recent.py only logs the
\* message and check_archive has none
ErrorMsg(outcome) ==
    CASE outcome = "ok" -> ""
      [] outcome = "nonzero" -> IF script = "update_all" THEN "stderr" ELSE ""
      [] outcome = "timeout" -> IF script = "update_all" THEN "timeout (300s)" ELSE ""
      [] OTHER -> IF script = "update_all" THEN "exception" ELSE ""

\* increment without "with self.lock": no thread ever waits
LockHeldByOtherUnlocked(w) == FALSE
\* "with self.lock": the lock is taken by another thread
LockHeldByOther(w) == trackerLock \notin {0, w}

\* a final status that does not look at the failures
FinalStatusIgnoringFailures(failed) == "completed"
\* final status derivation of main()
FinalStatus(failed) == IF failed = 0 THEN "completed" ELSE "completed_with_errors"

\* check_broken.py, final status of main()
CheckFinalStatus(broken) == IF broken = 0 THEN "completed" ELSE "completed_with_issues"

\* whether one write to the sink succeeds
SinkOutcomes == IF sinkFaulty THEN BOOLEAN ELSE {TRUE}

\* update_status and _write_progress without their try/except: a failed write raises
WriteRaisesUnguarded(ok) == ~ok
\* "try: ... except Exception: pass" around every write of the sink
WriteRaises(ok) == FALSE

\* the file after a write: the new document, or the old one when the write failed
Persist(ok, new, old) == IF ok THEN new ELSE old

\* ThreadPoolExecutor without max_workers bounding it to PARALLEL_JOBS
InPoolUnbounded(w) == TRUE
\* ThreadPoolExecutor(max_workers=PARALLEL_JOBS): the threads the pool may start
InPool(w) == w <= PARALLEL_JOBS

\* leaving the executor's with-block without waiting for the threads
PoolNotJoined == nextPkg > packages
\* the executor's with-block has ended: everything was submitted and every thread is back
PoolJoined == nextPkg > packages /\ \A w \in Workers : worker[w].pc = "idle"

\* install_package without its "finally: shutil.rmtree(...)"
dirs_kept(n) == n
\* shutil.rmtree(temp_dir, ignore_errors=True)
rmtree(n) == n - 1

\* a check that never raises
validates_anything(p) == TRUE
\* check_archive: tarfile.open(archive_path, 'r:gz') and tar.getnames() do not raise
validates(p) == p \notin invalid

\* the scripts whose units make a temporary directory
UsesTempDir == script # "check_broken"

\* the uncaught exception of a failed write ends main() with a traceback
MainAborts ==
    /\ mainPc' = "aborted"
    /\ exitCode' = 1
    /\ UNCHANGED <<refreshStatus, summary, tracker>>

\* ------------------------------------------------------ refresh: actions
\* main() up to the creation of the pool: a missing directory fails the run, an empty
\* work list ends it
MainStart ==
    /\ script \in PoolScripts
    /\ mainPc = "start"
    /\ \E ok1, ok2 \in SinkOutcomes :
         LET running == Persist(ok1, "running", refreshStatus)
         IN IF WriteRaises(ok1) \/ WriteRaises(ok2)
            THEN MainAborts
            ELSE IF precondition # "ok"
            THEN /\ mainPc' = "done"
                 /\ refreshStatus' = Persist(ok2, "failed", running)
                 /\ exitCode' = 1
                 /\ UNCHANGED <<summary, tracker>>
            ELSE IF packages = 0
            THEN /\ mainPc' = "done"
                 /\ refreshStatus' = Persist(ok2, "completed", running)
                 /\ exitCode' = 0
                 /\ summary' =
                      CASE script = "update_recent" ->
                             [totalPackages |-> 0, success |-> 0, failed |-> 0]
                        [] script = "check_broken" ->
                             [totalArchives |-> 0, brokenArchives |-> 0]
                        [] OTHER -> NoDoc
                 /\ UNCHANGED tracker
            ELSE /\ mainPc' = "pool"
                 /\ refreshStatus' = Persist(ok2, "running", running)
                 /\ tracker' = NewTracker(packages)
                 /\ UNCHANGED <<summary, exitCode>>
    /\ UNCHANGED <<script, packages, PARALLEL_JOBS, nextPkg, worker, trackerLock,
                   progressDoc, precondition, sinkFaulty, temp_dirs, fix, install,
                   calls, unitsFailed>>
    /\ UNCHANGED checkerVars
    /\ UNCHANGED auxVars
    /\ UNCHANGED diffVars

\* a free pool thread takes the next submitted unit and, in install_package, makes its
\* temporary directory; the pool's threads are interchangeable, so the lowest-numbered
\* idle one stands for any of them
Dispatch(w) ==
    /\ mainPc = "pool"
    /\ InPool(w)
    /\ worker[w].pc = "idle"
    /\ \A v \in 1..(w - 1) : worker[v].pc # "idle"
    /\ nextPkg <= packages
    /\ worker' = [worker EXCEPT ![w] = [IdleWorker EXCEPT !.pc = "subprocess",
                                                           !.pkg = nextPkg]]
    /\ nextPkg' = nextPkg + 1
    /\ temp_dirs' = IF UsesTempDir THEN temp_dirs + 1 ELSE temp_dirs
    /\ UNCHANGED <<script, packages, PARALLEL_JOBS, mainPc, tracker, trackerLock,
                   progressDoc, refreshStatus, summary, precondition, sinkFaulty,
                   exitCode, fix, install, calls, unitsFailed>>
    /\ UNCHANGED checkerVars
    /\ UNCHANGED auxVars
    /\ UNCHANGED diffVars

\* subprocess.run returns, times out or raises; the except clauses set error_msg and the
\* finally clause removes the directory. In check_archive tarfile.open and getnames
\* return or raise, and the except clause appends the path to broken_files
SubprocessEnds(w, outcome) ==
    /\ worker[w].pc = "subprocess"
    /\ script = "check_broken" =>
           outcome = IF validates(worker[w].pkg) THEN "ok" ELSE "exception"
    /\ broken_files' = IF script = "check_broken" /\ outcome # "ok"
                       THEN Append(broken_files, worker[w].pkg) ELSE broken_files
    /\ UNCHANGED <<invalid, BROKEN_FILE>>
    /\ worker' = [worker EXCEPT ![w].pc = "finally",
                                ![w].success = (outcome = "ok"),
                                ![w].error_msg = ErrorMsg(outcome)]
    /\ temp_dirs' = IF UsesTempDir THEN rmtree(temp_dirs) ELSE temp_dirs
    /\ unitsFailed' = IF outcome = "ok" THEN unitsFailed ELSE unitsFailed + 1
    /\ UNCHANGED <<script, packages, PARALLEL_JOBS, mainPc, nextPkg, tracker,
                   trackerLock, progressDoc, refreshStatus, summary, precondition,
                   sinkFaulty, exitCode, fix, install, calls>>
    /\ UNCHANGED auxVars
    /\ UNCHANGED diffVars

\* tracker.increment is called: the lock is taken and the counters read
IncrementEnter(w) ==
    /\ worker[w].pc = "finally"
    /\ ~LockHeldByOther(w)
    /\ trackerLock' = w
    /\ worker' = [worker EXCEPT ![w].pc = "locked",
                                ![w].cur = tracker.current,
                                ![w].succ = tracker.success,
                                ![w].fail = IF script = "check_broken"
                                            THEN tracker.broken ELSE tracker.failed]
    /\ calls' = [calls EXCEPT ![worker[w].pkg] = @ + 1]
    /\ UNCHANGED <<script, packages, PARALLEL_JOBS, mainPc, nextPkg, tracker,
                   progressDoc, refreshStatus, summary, precondition, sinkFaulty,
                   exitCode, temp_dirs, fix, install, unitsFailed>>
    /\ UNCHANGED checkerVars
    /\ UNCHANGED auxVars
    /\ UNCHANGED diffVars

\* the counters are written back, the document flushed, the lock released
IncrementBody(w) ==
    /\ worker[w].pc = "locked"
    /\ \E ok \in SinkOutcomes :
         LET me == worker[w]
             counted == script # "check_broken"
             t == [tracker EXCEPT
                     !.current = me.cur + 1,
                     !.current_package = me.pkg,
                     !.success = IF counted /\ me.success
                                 THEN me.succ + 1 ELSE tracker.success,
                     !.failed = IF counted /\ ~me.success
                                THEN me.fail + 1 ELSE tracker.failed,
                     !.broken = IF ~counted /\ ~me.success
                                THEN me.fail + 1 ELSE tracker.broken,
                     !.errors = IF me.success \/ script # "update_all"
                                THEN tracker.errors
                                ELSE Append(tracker.errors,
                                            [package |-> me.pkg, error |-> me.error_msg])]
         IN /\ tracker' = t
            /\ progressDoc' = IF ShouldFlush(t)
                              THEN Persist(ok, ProgressDocument(t), progressDoc)
                              ELSE progressDoc
    /\ trackerLock' = IF trackerLock = w THEN 0 ELSE trackerLock
    /\ worker' = [worker EXCEPT ![w] = IdleWorker]
    /\ UNCHANGED <<script, packages, PARALLEL_JOBS, mainPc, nextPkg, refreshStatus,
                   summary, precondition, sinkFaulty, exitCode, temp_dirs, fix, install,
                   calls, unitsFailed>>
    /\ UNCHANGED checkerVars
    /\ UNCHANGED auxVars
    /\ UNCHANGED diffVars

\* the executor's with-block has joined every thread: the checker writes BROKEN_FILE;
\* final status and summary
MainFinish ==
    /\ mainPc = "pool"
    /\ PoolJoined
    /\ \E ok \in SinkOutcomes :
         IF WriteRaises(ok)
         THEN MainAborts
         ELSE /\ mainPc' = "done"
              /\ exitCode' = 0
              /\ refreshStatus' =
                   Persist(ok, IF script = "check_broken"
                               THEN CheckFinalStatus(tracker.broken)
                               ELSE FinalStatus(tracker.failed), refreshStatus)
              /\ summary' =
                   IF script = "check_broken"
                   THEN [totalArchives |-> packages, brokenArchives |-> tracker.broken,
                         brokenFiles |-> broken_files]
                   ELSE [totalPackages |-> packages, success |-> tracker.success,
                         failed |-> tracker.failed]
              /\ UNCHANGED tracker
    /\ UNCHANGED <<script, packages, PARALLEL_JOBS, nextPkg, worker,
                   trackerLock, progressDoc, precondition, sinkFaulty, temp_dirs, fix,
                   install, calls, unitsFailed>>
    /\ BROKEN_FILE' = IF script = "check_broken"
                      THEN [exists |-> TRUE, lines |-> broken_files] ELSE BROKEN_FILE
    /\ UNCHANGED <<invalid, broken_files>>
    /\ UNCHANGED auxVars
    /\ UNCHANGED diffVars

NextRefresh ==
    \/ MainStart
    \/ \E w \in Workers : Dispatch(w)
    \/ \E w \in Workers, o \in Outcomes : SubprocessEnds(w, o)
    \/ \E w \in Workers : IncrementEnter(w)
    \/ \E w \in Workers : IncrementBody(w)
    \/ MainFinish

\* ------------------------------------------------------ repair: fix_broken.py
\* what one reinstall_package can meet: exit 0 with a valid archive, exit 0 with an
\* archive that still does not open, exit 0 with no archive at the path, and the failures
FixOutcomes == {"ok", "ok_broken", "ok_absent", "nonzero", "timeout", "exception"}

\* a repair that counts only an archive found readable at the path
reinstalled_only_if_present(outcome) == outcome = "ok"
\* reinstall_package: the value returned
reinstalled(outcome) == outcome \in {"ok", "ok_absent"}

\* update_progress of fix_broken.py: the document written to PROGRESS_FILE
FixDocument(f) ==
    [current |-> f.i, total |-> packages, fixed |-> f.fixed, failed |-> f.failed,
     currentPackage |-> f.i]

\* main() up to the loop: a missing list fails the run, an empty list ends it
FixStart ==
    /\ script = "fix_broken"
    /\ mainPc = "start"
    /\ \E ok1, ok2 \in SinkOutcomes :
         LET running == Persist(ok1, "running", refreshStatus)
         IN IF WriteRaises(ok1) \/ WriteRaises(ok2)
            THEN MainAborts /\ UNCHANGED fix
            ELSE IF precondition # "ok"
            THEN /\ mainPc' = "done"
                 /\ refreshStatus' = Persist(ok2, "failed", running)
                 /\ exitCode' = 1
                 /\ UNCHANGED <<summary, fix>>
            ELSE IF packages = 0
            THEN /\ mainPc' = "done"
                 /\ refreshStatus' = Persist(ok2, "completed", running)
                 /\ exitCode' = 0
                 /\ summary' = [totalBroken |-> 0, fixed |-> 0, failed |-> 0]
                 /\ UNCHANGED fix
            ELSE /\ mainPc' = "loop"
                 /\ refreshStatus' = Persist(ok2, "running", running)
                 /\ fix' = [pc |-> "top", i |-> 1, fixed |-> 0, failed |-> 0]
                 /\ UNCHANGED <<summary, exitCode>>
    /\ UNCHANGED <<script, packages, PARALLEL_JOBS, nextPkg, worker, tracker, trackerLock,
                   progressDoc, precondition, sinkFaulty, temp_dirs, install, calls,
                   unitsFailed>>
    /\ UNCHANGED checkerVars
    /\ UNCHANGED auxVars
    /\ UNCHANGED diffVars

\* a loop that stops one path short of the end of the list
ListExhaustedEarly == fix.i >= packages
\* "for i, archive_path in enumerate(broken_archives, 1)" has gone through the list
ListExhausted == fix.i > packages

\* the loop body up to the subprocess: update_progress, then reinstall_package makes
\* its temporary directory
FixBegin ==
    /\ mainPc = "loop"
    /\ fix.pc = "top"
    /\ fix.i <= packages
    /\ \E ok \in SinkOutcomes :
         progressDoc' = Persist(ok, FixDocument(fix), progressDoc)
    /\ temp_dirs' = temp_dirs + 1
    /\ fix' = [fix EXCEPT !.pc = "subprocess"]
    /\ UNCHANGED <<script, packages, PARALLEL_JOBS, mainPc, nextPkg, worker, tracker,
                   trackerLock, refreshStatus, summary, precondition, sinkFaulty,
                   exitCode, install, calls, unitsFailed>>
    /\ UNCHANGED checkerVars
    /\ UNCHANGED auxVars
    /\ UNCHANGED diffVars

\* the subprocess ends, the directory is removed, reinstall_package returns and the
\* loop counts the result and writes the progress document
FixEnd(outcome) ==
    /\ mainPc = "loop"
    /\ fix.pc = "subprocess"
    /\ temp_dirs' = rmtree(temp_dirs)
    /\ LET f == [fix EXCEPT
                   !.fixed = IF reinstalled(outcome) THEN @ + 1 ELSE @,
                   !.failed = IF reinstalled(outcome) THEN @ ELSE @ + 1]
       IN /\ \E ok \in SinkOutcomes :
               progressDoc' = Persist(ok, FixDocument(f), progressDoc)
          /\ fix' = [f EXCEPT !.pc = "top", !.i = @ + 1]
    /\ unitsFailed' = IF reinstalled(outcome) THEN unitsFailed ELSE unitsFailed + 1
    /\ UNCHANGED <<script, packages, PARALLEL_JOBS, mainPc, nextPkg, worker, tracker,
                   trackerLock, refreshStatus, summary, precondition, sinkFaulty,
                   exitCode, install, calls>>
    /\ UNCHANGED checkerVars
    /\ UNCHANGED auxVars
    /\ UNCHANGED diffVars

\* after the loop: final status and summary
FixFinish ==
    /\ mainPc = "loop"
    /\ fix.pc = "top"
    /\ ListExhausted
    /\ \E ok \in SinkOutcomes :
         IF WriteRaises(ok)
         THEN MainAborts
         ELSE /\ mainPc' = "done"
              /\ exitCode' = 0
              /\ refreshStatus' = Persist(ok, FinalStatus(fix.failed), refreshStatus)
              /\ summary' = [totalBroken |-> packages, fixed |-> fix.fixed,
                             failed |-> fix.failed]
              /\ UNCHANGED tracker
    /\ UNCHANGED <<script, packages, PARALLEL_JOBS, nextPkg, worker, trackerLock,
                   progressDoc, precondition, sinkFaulty, temp_dirs, fix, install, calls,
                   unitsFailed>>
    /\ UNCHANGED checkerVars
    /\ UNCHANGED auxVars
    /\ UNCHANGED diffVars

\* ----------------------------------- repair of one path: reinstall_package
\* what is at archive_path: nothing, a file tarfile cannot read, a readable archive
ArchiveStates == {"absent", "invalid", "valid"}

\* a repair that leaves the broken file where it is
os_remove_skipped(a) == a
\* "if os.path.exists(archive_path): os.remove(archive_path)"
os_remove(a) == "absent"

\* the branch of reinstall_package an attempt ends in: how the installer ended and,
\* after an exit with code 0, what os.path.exists and tarfile.open find at archive_path
fix_outcome(outcome, after) ==
    IF outcome # "ok" THEN outcome
    ELSE CASE after = "valid" -> "ok"
           [] after = "invalid" -> "ok_broken"
           [] OTHER -> "ok_absent"

\* one attempt as the history keeps it
Attempt(before, ran, outcome, m, after) ==
    [before |-> before, ran |-> ran, outcome |-> outcome, m |-> m, after |-> after,
     success |-> reinstalled(fix_outcome(outcome, after))]

\* reinstall_package is called for the path; os.remove either raises (the attempt ends
\* in "except Exception" and returns False) or leaves the path absent
RepairRemove(raises) ==
    /\ repair.pc = "remove"
    /\ repair.attempts < MaxAttempts
    /\ raises => repair.archive # "absent"
    /\ repair' =
         IF raises
         THEN [repair EXCEPT
                 !.attempts = @ + 1,
                 !.history = Append(@, Attempt(repair.archive, FALSE, "exception",
                                               "absent", repair.archive))]
         ELSE [repair EXCEPT !.pc = "install", !.before = repair.archive,
                             !.archive = os_remove(repair.archive)]
    /\ UNCHANGED <<script, packages, PARALLEL_JOBS, mainPc, nextPkg, worker, tracker,
                   trackerLock, progressDoc, refreshStatus, summary, precondition,
                   sinkFaulty, exitCode, temp_dirs, fix, install, calls, unitsFailed>>
    /\ UNCHANGED checkerVars
    /\ UNCHANGED <<scan, extract>>
    /\ UNCHANGED diffVars

\* the installer ends, during which the registry has stored a tarball at archive_path
\* (readable or not) or has left the path as it was; the archive is re-validated after
\* an exit with code 0, and reinstall_package returns
RepairInstall(outcome, m) ==
    /\ repair.pc = "install"
    /\ LET after == IF m = "absent" THEN repair.archive ELSE m
       IN repair' = [repair EXCEPT
                       !.pc = "remove",
                       !.archive = after,
                       !.attempts = @ + 1,
                       !.history = Append(@, Attempt(repair.before, TRUE, outcome, m,
                                                     after))]
    /\ UNCHANGED <<script, packages, PARALLEL_JOBS, mainPc, nextPkg, worker, tracker,
                   trackerLock, progressDoc, refreshStatus, summary, precondition,
                   sinkFaulty, exitCode, temp_dirs, fix, install, calls, unitsFailed>>
    /\ UNCHANGED checkerVars
    /\ UNCHANGED <<scan, extract>>
    /\ UNCHANGED diffVars

NextRepair ==
    \/ \E raises \in BOOLEAN : RepairRemove(raises)
    \/ \E outcome \in Outcomes, m \in ArchiveStates : RepairInstall(outcome, m)

\* ------------------------------ repair: extract_package_info of fix_broken.py
\* a str is the sequence of its characters; the characters of the paths modelled
Digits == {"1", "2"}
\* the class [\w.] of the regular expression: digits, letters, '_' and '.'
WordOrDot == Digits \cup {"a", "t", "g", "z", "_", "."}

\* the end of the longest run of characters of a class that starts at s[i]: the index
\* of the first character at or after i that is not in the class
RECURSIVE RunEnd(_, _, _)
RunEnd(s, i, class) ==
    IF i > Len(s) \/ s[i] \notin class THEN i ELSE RunEnd(s, i + 1, class)

\* where a match of (\d+\.\d+\.\d+(?:-[\w.]+)?) that starts at s[i] ends (the index
\* after its last character), 0 when there is none; every quantifier is greedy and none
\* can give a character back, as what follows a run never belongs to its class
MatchEnd(s, i) ==
    LET a == RunEnd(s, i, Digits)
        b == RunEnd(s, a + 1, Digits)
        c == RunEnd(s, b + 1, Digits)
        e == RunEnd(s, c + 1, WordOrDot)
    IN IF a = i \/ a > Len(s) \/ s[a] # "." THEN 0
       ELSE IF b = a + 1 \/ b > Len(s) \/ s[b] # "." THEN 0
       ELSE IF c = b + 1 THEN 0
       ELSE IF c <= Len(s) /\ s[c] = "-" /\ e > c + 1 THEN e
       ELSE c

\* re.search: group(1) of the leftmost match, <<>> for None
re_search(s) ==
    LET starts == {i \in 1..Len(s) : MatchEnd(s, i) # 0}
    IN IF starts = {} THEN <<>>
       ELSE LET i == CHOOSE k \in starts : \A j \in starts : k <= j
            IN SubSeq(s, i, MatchEnd(s, i) - 1)

Latest == <<"l", "a", "t", "e", "s", "t">>

\* version = version_match.group(1) if version_match else 'latest'
version_of(filename) ==
    IF re_search(filename) = <<>> THEN Latest ELSE re_search(filename)

\* the package name from the directories between STORAGE_DIR and the file
package_name_of(parts) ==
    IF Len(parts) >= 2 /\ parts[1][1] = "@"
    THEN parts[1] \o <<"/">> \o parts[2]
    ELSE parts[1]

Extension == <<".", "t", "g", "z">>

\* the file name of an archive of package name with version V (<<>>: none)
FileName(name, V) ==
    IF V = <<>> THEN name \o Extension ELSE name \o <<"-">> \o V \o Extension

\* the archive paths modelled: storage/<name>/<file> and storage/@<scope>/<name>/<file>
\* where <file> is <name>-<V>.tgz, or <name>.tgz for a file without a version; V is a
\* core x.y.z with or without a prerelease suffix; parts are the directories between
\* STORAGE_DIR and the file
ExtractInputs ==
    LET PackageNames ==
            {<<"a">>, <<"a", "1">>, <<"a", "-", "a">>, <<"a", ".", "a">>,
             <<"a", "_", "1">>}
        ScopeNames == {<<>>, <<"@", "a">>}
        Cores ==
            {x \o <<".", y, ".", z>> :
                x \in {<<"1">>, <<"1", "2">>}, y \in Digits, z \in Digits}
        Prereleases ==
            {<<>>, <<"-", "a">>, <<"-", "1">>, <<"-", "a", ".", "1">>,
             <<"-", "a", "_", "1">>}
        Versions == {c \o q : c \in Cores, q \in Prereleases}
    IN {[pc |-> "start", scope |-> sc, name |-> n, V |-> v,
         filename |-> FileName(n, v),
         parts |-> IF sc = <<>> THEN <<n>> ELSE <<sc, n>>,
         package_name |-> <<>>, version |-> <<>>] :
            sc \in ScopeNames, n \in PackageNames, v \in Versions \cup {<<>>}}

\* extract_package_info(archive_path) returns (package_name, version)
ExtractPackageInfo ==
    /\ extract.pc = "start"
    /\ extract' = [extract EXCEPT !.pc = "returned",
                                  !.package_name = package_name_of(extract.parts),
                                  !.version = version_of(extract.filename)]
    /\ UNCHANGED <<script, packages, PARALLEL_JOBS, mainPc, nextPkg, worker, tracker,
                   trackerLock, progressDoc, refreshStatus, summary, precondition,
                   sinkFaulty, exitCode, temp_dirs, fix, install, calls, unitsFailed>>
    /\ UNCHANGED checkerVars
    /\ UNCHANGED <<scan, repair>>
    /\ UNCHANGED diffVars

NextExtract ==
    \/ ExtractPackageInfo

\* ------------------------------------------ scanners of the storage directory
\* a name is the sequence of its characters
startswith(name, c) == Len(name) > 0 /\ name[1] = c

\* [a-zA-Z0-9@._/-], with the letters and digits of the names modelled
RestChars ==
    {"a", "b", "c", "d", "e", "f", "g", "h", "i", "j", "k", "l", "m", "n", "o", "p",
     "r", "s", "t", "v", "w", "0", "1", "@", ".", "_", "-", "/"}

\* re.match(r'^[a-zA-Z0-9@._-][a-zA-Z0-9@._/-]*$', name): the first class is the
\* second without '/'
re_match(name) ==
    /\ Len(name) > 0
    /\ name[1] \in RestChars \ {"/"}
    /\ \A k \in 2..Len(name) : name[k] \in RestChars

\* ('.storerc', 'data.json', 'package.json', 'npm-shrinkwrap.json')
ServiceNames ==
    {<<".", "s", "t", "o", "r", "e", "r", "c">>,
     <<"d", "a", "t", "a", ".", "j", "s", "o", "n">>,
     <<"p", "a", "c", "k", "a", "g", "e", ".", "j", "s", "o", "n">>,
     <<"n", "p", "m", "-", "s", "h", "r", "i", "n", "k", "w", "r", "a", "p", ".", "j",
       "s", "o", "n">>}

\* a filter that lets a leading '-' through
is_valid_package_name_dash(name) ==
    /\ ~(name = <<>> \/ startswith(name, "."))
    /\ name \notin ServiceNames
    /\ re_match(name)
\* _is_valid_package_name(name)
is_valid_package_name(name) ==
    /\ ~(name = <<>> \/ startswith(name, "."))
    /\ ~startswith(name, "-")
    /\ name \notin ServiceNames
    /\ re_match(name)

\* _is_valid_package(pkg_dir), by what the package.json of the cache entry holds: there
\* is none ("no_cache"), versions and no 'unpublished' time ("ok"), an empty versions
\* map, an 'unpublished' time beside versions, or text json.loads cannot read
is_valid_package(meta) == meta \notin {"empty_versions", "unpublished"}

\* an entry: its name, the scope directory it is in (none, '@scope', or one outside the
\* charset), whether it is a directory, its package.json and whether that was modified
\* after the cutoff time; the names are the spec's examples, two service files, a name
\* with a character outside the charset and one that begins with an underscore
Entries ==
    LET EntryNames ==
            {<<"l", "o", "d", "a", "s", "h">>,
             <<"v", "a", "l", "i", "d", "-", "n", "a", "m", "e">>,
             <<".", "h", "i", "d", "d", "e", "n">>,
             <<"-", "f", "l", "a", "g", "-", "l", "i", "k", "e">>,
             <<"d", "a", "t", "a", ".", "j", "s", "o", "n">>,
             <<"p", "a", "c", "k", "a", "g", "e", ".", "j", "s", "o", "n">>,
             <<"a", "$">>,
             <<"_", "a">>}
        ScopeDirs == {<<>>, <<"@", "s", "c", "o", "p", "e">>, <<"@", "$">>}
        MetaStates == {"no_cache", "ok", "empty_versions", "unpublished", "corrupt"}
    IN {e \in [name : EntryNames, scope : ScopeDirs, kind : {"dir", "file"},
               meta : MetaStates, recent : BOOLEAN] :
           /\ e.kind = "file" => e.meta = "no_cache"
           /\ e.meta = "no_cache" => ~e.recent}

\* a cached package beside the entry under test
Companion ==
    [name |-> <<"o", "k">>, scope |-> <<>>, kind |-> "dir", meta |-> "ok",
     recent |-> TRUE]

\* f"{item.name}/{subitem.name}", or item.name
FullName(e) == IF e.scope = <<>> THEN e.name ELSE e.scope \o <<"/">> \o e.name

\* the entries both directory walks come to: directories that are not hidden
Walked(listing) == {e \in listing : e.kind = "dir" /\ ~startswith(e.name, ".")}

\* the entries rglob('package.json') yields with an mtime after the cutoff: a hidden
\* directory is only passed over at the top level
Modified(listing) ==
    {e \in listing : /\ e.kind = "dir"
                     /\ e.recent
                     /\ e.scope = <<>> => ~startswith(e.name, ".")}

\* lib get_all_packages(): the elements of the list returned
get_all_packages(listing) ==
    {FullName(e) : e \in {x \in Walked(listing) :
        is_valid_package_name(x.name) /\ is_valid_package(x.meta)}}

\* lib get_modified_packages(): the set returned
lib_get_modified_packages(listing) ==
    {FullName(e) : e \in {x \in Modified(listing) : is_valid_package_name(x.name)}}

\* update_all.py get_package_list(): the elements of the list returned
get_package_list(listing) == {FullName(e) : e \in Walked(listing)}

\* update_recent.py get_modified_packages(): the set returned
get_modified_packages(listing) == {FullName(e) : e \in Modified(listing)}

\* one of the four scanners about to walk a storage directory that holds one entry,
\* alone or beside a cached package
ScanInputs ==
    {[pc |-> "start", scanner |-> s, listing |-> l, result |-> {}] :
        s \in {"get_all_packages", "lib_get_modified_packages", "get_package_list",
               "get_modified_packages"},
        l \in {{e} : e \in Entries} \cup {{e, Companion} : e \in Entries}}

\* one scan of the storage directory returns
Scan(s, result) ==
    /\ scan.pc = "start"
    /\ scan.scanner = s
    /\ scan' = [scan EXCEPT !.pc = "returned", !.result = result]
    /\ UNCHANGED <<script, packages, PARALLEL_JOBS, mainPc, nextPkg, worker, tracker,
                   trackerLock, progressDoc, refreshStatus, summary, precondition,
                   sinkFaulty, exitCode, temp_dirs, fix, install, calls, unitsFailed>>
    /\ UNCHANGED checkerVars
    /\ UNCHANGED <<repair, extract>>
    /\ UNCHANGED diffVars

ScanAll == Scan("get_all_packages", get_all_packages(scan.listing))

ScanModified == Scan("lib_get_modified_packages", lib_get_modified_packages(scan.listing))

ScanPackageList == Scan("get_package_list", get_package_list(scan.listing))

ScanRecent == Scan("get_modified_packages", get_modified_packages(scan.listing))

NextScan ==
    \/ ScanAll
    \/ ScanModified
    \/ ScanPackageList
    \/ ScanRecent

\* ------------------------------------------- single package: update_single.py
\* update_progress of update_single.py: the document written to PROGRESS_FILE
SingleDocument(current, success, failed, errors) ==
    [current |-> current, total |-> 1, success |-> success, failed |-> failed,
     currentPackage |-> 1, errors |-> errors]

\* main() up to the subprocess of install_package: a missing argument ends the process
\* before anything is written, a missing directory fails the run
SingleStart ==
    /\ script = "update_single"
    /\ mainPc = "start"
    /\ IF precondition = "arg_missing"
       THEN /\ mainPc' = "done"
            /\ exitCode' = 1
            /\ UNCHANGED <<refreshStatus, progressDoc, temp_dirs>>
       ELSE \E ok1, ok2, ok3 \in SinkOutcomes :
              LET running == Persist(ok1, "running", refreshStatus)
              IN /\ progressDoc' =
                      Persist(ok2, SingleDocument(0, 0, 0, <<>>), progressDoc)
                 /\ IF precondition # "ok"
                    THEN /\ mainPc' = "done"
                         /\ refreshStatus' = Persist(ok3, "failed", running)
                         /\ exitCode' = 1
                         /\ UNCHANGED temp_dirs
                    ELSE /\ mainPc' = "install"
                         /\ refreshStatus' = running
                         /\ temp_dirs' = temp_dirs + 1
                         /\ UNCHANGED exitCode
    /\ UNCHANGED <<script, packages, PARALLEL_JOBS, nextPkg, worker, tracker, trackerLock,
                   summary, precondition, sinkFaulty, fix, install, calls, unitsFailed>>
    /\ UNCHANGED checkerVars
    /\ UNCHANGED auxVars
    /\ UNCHANGED diffVars

\* install_package returns (the directory removed in its finally clause) and main()
\* reports: completed on success, failed and exit code 1 otherwise
SingleEnds(outcome) ==
    /\ script = "update_single"
    /\ mainPc = "install"
    /\ mainPc' = "done"
    /\ temp_dirs' = rmtree(temp_dirs)
    /\ unitsFailed' = IF outcome = "ok" THEN unitsFailed ELSE unitsFailed + 1
    /\ \E ok1, ok2 \in SinkOutcomes :
         IF outcome = "ok"
         THEN /\ progressDoc' =
                   Persist(ok1, SingleDocument(1, 1, 0, <<>>), progressDoc)
              /\ refreshStatus' = Persist(ok2, "completed", refreshStatus)
              /\ exitCode' = 0
         ELSE /\ progressDoc' =
                   Persist(ok1, SingleDocument(1, 0, 1, <<[package |-> 1,
                                                           error |-> outcome]>>),
                           progressDoc)
              /\ refreshStatus' = Persist(ok2, "failed", refreshStatus)
              /\ exitCode' = 1
    /\ UNCHANGED <<script, packages, PARALLEL_JOBS, nextPkg, worker, tracker, trackerLock,
                   summary, precondition, sinkFaulty, fix, install, calls>>
    /\ UNCHANGED checkerVars
    /\ UNCHANGED auxVars
    /\ UNCHANGED diffVars

\* ------------------------------------- library installer: lib/packages.py
\* error_msg = (stderr_text[:500] or stdout_text[:500])
TruncateAt == 500

Min(a, b) == IF a <= b THEN a ELSE b

\* the substrings install_package looks for in stderr_text + stdout_text
GitSignatures == {"spawn git ENOENT", "git ls-remote"}
SocketSignatures == {"ERR_SOCKET_TIMEOUT", "Socket timeout"}
NoMatchSignatures == {"ERR_PNPM_NO_MATCHING_VERSION"}
Signatures == GitSignatures \cup SocketSignatures \cup NoMatchSignatures

\* lengths of an output text or of str(e): empty, short, at the cut and past it
OutputLens == {0, 1, TruncateAt, TruncateAt + 1}

\* a message: which text it is and how many characters it has
NoError == [text |-> "", len |-> 0]

\* stderr_text[:500] or stdout_text[:500]
raw_message(stderr_len, stdout_len) ==
    IF stderr_len > 0 THEN [text |-> "stderr", len |-> Min(stderr_len, TruncateAt)]
    ELSE IF stdout_len > 0 THEN [text |-> "stdout", len |-> Min(stdout_len, TruncateAt)]
    ELSE NoError

\* the if / elif chain with the socket-timeout test moved before the git test
diagnose_socket_first(sigs, stderr_len, stdout_len) ==
    IF sigs \cap SocketSignatures # {}
    THEN [text |-> "socket timeout (verdaccio/proxy overloaded)", len |-> 43]
    ELSE IF sigs \cap GitSignatures # {}
    THEN [text |-> "git dependency (git not available in container)", len |-> 47]
    ELSE IF sigs \cap NoMatchSignatures # {}
    THEN [text |-> "no matching version for transitive dependency", len |-> 45]
    ELSE raw_message(stderr_len, stdout_len)

\* the else branch of "if success": the message of a non-zero exit
diagnose(sigs, stderr_len, stdout_len) ==
    IF sigs \cap GitSignatures # {}
    THEN [text |-> "git dependency (git not available in container)", len |-> 47]
    ELSE IF sigs \cap SocketSignatures # {}
    THEN [text |-> "socket timeout (verdaccio/proxy overloaded)", len |-> 43]
    ELSE IF sigs \cap NoMatchSignatures # {}
    THEN [text |-> "no matching version for transitive dependency", len |-> 45]
    ELSE raw_message(stderr_len, stdout_len)

\* error_msg when install_package reaches its finally clause
install_error_msg(i) ==
    CASE i.outcome = "ok" -> NoError
      [] i.outcome = "nonzero" -> diagnose(i.sigs, i.stderr_len, i.stdout_len)
      [] i.outcome = "timeout" -> [text |-> "timeout (300s)", len |-> 14]
      [] OTHER -> [text |-> "str(e)", len |-> i.exc_len]

\* how the typesync subprocess of run_typesync can end: the program is not installed,
\* it exits non-zero, it runs into its 60 s timeout, it exits 0 and leaves package.json
\* as it was, it exits 0 and has changed package.json, or it exits 0 and has left a
\* changed package.json that json.load cannot read
\* ("missing", "nonzero", "timeout", "unchanged", "changed", "unparsable")

\* a pass that reports a change whenever typesync has run to its end
run_typesync_any_exit(o) == o \in {"unchanged", "changed", "unparsable"}
\* the value run_typesync returns: True only when typesync exited 0 and the hash of
\* package.json differs; every exception ends in "return False"
run_typesync(o) == o = "changed"

\* is_types_package = package.startswith('@types/'), guarding the pass with sync_types
typesync_wanted(i) == i.sync_types /\ ~i.is_types

\* what one call of install_package can meet: how the subprocess ends, the signatures
\* in its combined output, the lengths of its two output texts, the length of the text
\* of another exception, whether the caller passed a tracker, whether the package is
\* an '@types/' one, the sync_types argument, how typesync ends and how the follow-up
\* "pnpm install" ends; what the call cannot come to is held at one value
InstallInputs ==
    {i \in [pc : {"start"}, outcome : Outcomes, sigs : SUBSET Signatures,
            stderr_len : OutputLens, stdout_len : OutputLens, exc_len : OutputLens,
            tracker : BOOLEAN, success : {FALSE}, error_msg : {NoError},
            is_types : BOOLEAN, sync_types : BOOLEAN,
            typesync : {"missing", "nonzero", "timeout", "unchanged", "changed",
                        "unparsable"},
            types_install : Outcomes, typesync_runs : {0}, types_installs : {0}] :
        /\ i.sigs # {} => i.stderr_len + i.stdout_len > 0
        /\ i.outcome \in {"timeout", "exception"} =>
              i.sigs = {} /\ i.stderr_len = 0 /\ i.stdout_len = 0
        /\ IF i.outcome = "exception" THEN i.exc_len > 0 ELSE i.exc_len = 0
        /\ i.outcome # "ok" => i.sync_types /\ ~i.is_types
        /\ (i.outcome # "ok" \/ ~typesync_wanted(i)) => i.typesync = "unchanged"
        /\ i.typesync # "changed" => i.types_install = "ok"}

\* install_package is called: tempfile.mkdtemp()
InstallBegin ==
    /\ script = "install_package"
    /\ mainPc = "start"
    /\ install.pc = "start"
    /\ mainPc' = "install"
    /\ install' = [install EXCEPT !.pc = "subprocess"]
    /\ temp_dirs' = temp_dirs + 1
    /\ tracker' = NewTracker(1)
    /\ UNCHANGED <<script, packages, PARALLEL_JOBS, nextPkg, worker, trackerLock,
                   progressDoc, refreshStatus, summary, precondition, sinkFaulty,
                   exitCode, fix, calls, unitsFailed>>
    /\ UNCHANGED checkerVars
    /\ UNCHANGED auxVars
    /\ UNCHANGED diffVars

\* subprocess.run ends; success and error_msg are set by the try body or an except
\* clause; after an exit with code 0 the call goes on to run_typesync when
\* "sync_types and not is_types_package", otherwise the finally clause removes the
\* directory
InstallRun ==
    /\ install.pc = "subprocess"
    /\ IF install.outcome = "ok" /\ typesync_wanted(install)
       THEN /\ install' = [install EXCEPT !.pc = "typesync", !.success = TRUE]
            /\ UNCHANGED <<temp_dirs, unitsFailed>>
       ELSE /\ install' = [install EXCEPT !.pc = "report",
                                          !.success = (install.outcome = "ok"),
                                          !.error_msg = install_error_msg(install)]
            /\ temp_dirs' = rmtree(temp_dirs)
            /\ unitsFailed' =
                 IF install.outcome = "ok" THEN unitsFailed ELSE unitsFailed + 1
    /\ UNCHANGED <<script, packages, PARALLEL_JOBS, mainPc, nextPkg, worker, tracker,
                   trackerLock, progressDoc, refreshStatus, summary, precondition,
                   sinkFaulty, exitCode, fix, calls>>
    /\ UNCHANGED checkerVars
    /\ UNCHANGED auxVars
    /\ UNCHANGED diffVars

\* types_added = run_typesync(temp_dir): when it is True the call goes on to
\* install_types_from_package_json, otherwise the try body ends and the finally
\* clause removes the directory
InstallTypesync ==
    /\ install.pc = "typesync"
    /\ IF run_typesync(install.typesync)
       THEN /\ install' = [install EXCEPT !.pc = "types_install",
                                          !.typesync_runs = @ + 1]
            /\ UNCHANGED temp_dirs
       ELSE /\ install' = [install EXCEPT !.pc = "report", !.typesync_runs = @ + 1]
            /\ temp_dirs' = rmtree(temp_dirs)
    /\ UNCHANGED <<script, packages, PARALLEL_JOBS, mainPc, nextPkg, worker, tracker,
                   trackerLock, progressDoc, refreshStatus, summary, precondition,
                   sinkFaulty, exitCode, fix, calls, unitsFailed>>
    /\ UNCHANGED checkerVars
    /\ UNCHANGED auxVars
    /\ UNCHANGED diffVars

\* install_types_from_package_json(temp_dir) returns (1, 0) or (0, 1): its result only
\* chooses a log line; the try body ends and the finally clause removes the directory
InstallTypes ==
    /\ install.pc = "types_install"
    /\ install' = [install EXCEPT !.pc = "report", !.types_installs = @ + 1]
    /\ temp_dirs' = rmtree(temp_dirs)
    /\ UNCHANGED <<script, packages, PARALLEL_JOBS, mainPc, nextPkg, worker, tracker,
                   trackerLock, progressDoc, refreshStatus, summary, precondition,
                   sinkFaulty, exitCode, fix, calls, unitsFailed>>
    /\ UNCHANGED checkerVars
    /\ UNCHANGED auxVars
    /\ UNCHANGED diffVars

\* "if tracker is not None: tracker.increment(package, success, error_msg)", then
\* install_package returns (success, error_msg)
InstallReturn ==
    /\ install.pc = "report"
    /\ install' = [install EXCEPT !.pc = "returned"]
    /\ mainPc' = "done"
    /\ IF install.tracker
       THEN /\ calls' = [calls EXCEPT ![1] = @ + 1]
            /\ \E ok \in SinkOutcomes :
                 LET t == [tracker EXCEPT
                             !.current = @ + 1,
                             !.current_package = 1,
                             !.success = IF install.success THEN @ + 1 ELSE @,
                             !.failed = IF install.success THEN @ ELSE @ + 1,
                             !.errors =
                                IF install.success THEN @
                                ELSE Append(@, [package |-> 1,
                                                error |-> [install.error_msg EXCEPT
                                                    !.len = Min(@, TruncateAt)]])]
                 IN /\ tracker' = t
                    /\ progressDoc' =
                         IF ShouldFlush(t)
                         THEN Persist(ok, ProgressDocument(t), progressDoc)
                         ELSE progressDoc
       ELSE UNCHANGED <<calls, tracker, progressDoc>>
    /\ UNCHANGED <<script, packages, PARALLEL_JOBS, nextPkg, worker, trackerLock,
                   refreshStatus, summary, precondition, sinkFaulty, exitCode,
                   temp_dirs, fix, unitsFailed>>
    /\ UNCHANGED checkerVars
    /\ UNCHANGED auxVars
    /\ UNCHANGED diffVars

NextInstall ==
    \/ InstallBegin
    \/ InstallRun
    \/ InstallTypesync
    \/ InstallTypes
    \/ InstallReturn

\* every entry point of the refresh side, and a call of the library installer
NextTasks ==
    \/ NextRefresh
    \/ FixStart
    \/ FixBegin
    \/ \E o \in FixOutcomes : FixEnd(o)
    \/ FixFinish
    \/ SingleStart
    \/ \E o \in Outcomes : SingleEnds(o)
    \/ NextInstall

\* --------------------------------------------------- snapshotter: data
\* relative paths of the storage tree, in the order rglob('*') yields them
PathOrder == <<".verdaccio-db.json", "a/a-1.0.0.tgz", "b/b-2.0.0.tgz">>
Paths == {PathOrder[k] : k \in 1..Len(PathOrder)}

\* Path.name: the last component of a path
NameOf(p) ==
    CASE p = ".verdaccio-db.json" -> ".verdaccio-db.json"
      [] p = "a/a-1.0.0.tgz" -> "a-1.0.0.tgz"
      [] OTHER -> "b-2.0.0.tgz"

\* get_diff_files: exclude_names
exclude_names == {".sinopia-db.json", ".verdaccio-db.json", ".DS_Store"}

\* the package files; the registry's own database file is only ever looked at by name,
\* so the model lets it be present or absent and leaves its version alone
RegularPaths == {p \in Paths : NameOf(p) \notin exclude_names}

\* caller-supplied or time-derived DIFF_ID values; "" is an unset DIFF_ID
DiffIds == {"diff_1", "diff_2"}

\* a file version: its content (0: as first stored, k: as written by the registry's
\* k-th operation) and its modification time
Absent == [content |-> -1, mtime |-> -1]
Exists(v) == v # Absent
EmptyTree == [p \in Paths |-> Absent]
FilesOf(tree) == {p \in Paths : Exists(tree[p])}

\* st_size of a version
SizeOf(v) == v.content + 1

\* datetime.fromtimestamp(st_mtime).isoformat(): the manifest holds a string
IsoFormat(m) == <<"iso", m>>

NoArchive == [members |-> <<>>, closed |-> FALSE, present |-> FALSE]
NoManifest == [files |-> <<>>, present |-> FALSE, epoch |-> -1, fresh |-> FALSE]

\* the paths of a sequence of paths
PathsOfList(seq) == {seq[k] : k \in 1..Len(seq)}

\* the paths named by a sequence of records with a path field
PathsOf(seq) == {seq[k].path : k \in 1..Len(seq)}

\* ------------------------------------------------ snapshotter: analyze
\* shutil.copy without copystat: the copy gets the time of the copy
copy_without_stat(v) == [content |-> v.content, mtime |-> MaxTime + 1]
\* shutil.copy2: content and modification time of the source
copy2(v) == [content |-> v.content, mtime |-> v.mtime]

\* the comparison of get_diff_files taken as "not older"
newer_or_equal(src_mtime, frozen_mtime) == src_mtime >= frozen_mtime
\* "if src_mtime > frozen_mtime"
newer(src_mtime, frozen_mtime) == src_mtime > frozen_mtime

\* get_diff_files: the loop over storage_path.rglob('*'), from the k-th path on
RECURSIVE diff_files_from(_, _, _)
diff_files_from(k, st, fr) ==
    IF k > Len(PathOrder) THEN <<>>
    ELSE LET rel_path == PathOrder[k]
             rest == diff_files_from(k + 1, st, fr)
         IN IF ~Exists(st[rel_path]) THEN rest
            ELSE IF NameOf(rel_path) \in exclude_names THEN rest
            ELSE IF ~Exists(fr[rel_path]) THEN <<rel_path>> \o rest
            ELSE IF newer(st[rel_path].mtime, fr[rel_path].mtime)
                 THEN <<rel_path>> \o rest
                 ELSE rest

get_diff_files(st, fr) == diff_files_from(1, st, fr)

\* ------------------------------------------------- snapshotter: actions
DiffProc0 == [pc |-> "idle", id |-> "", diff_files |-> <<>>, files_info |-> <<>>,
              i |-> 0, epoch |-> -1, fresh |-> FALSE]
SyncProc0 == [pc |-> "idle", id |-> "", files_info |-> <<>>, idx |-> 0,
              copied |-> 0, failed |-> 0, epoch |-> -1, endEpoch |-> -1,
              manifestEpoch |-> -1, fresh |-> FALSE]
NoPrevSync == [present |-> FALSE, files_info |-> <<>>, failed |-> 0, epoch |-> -1,
               endEpoch |-> -1, frozen |-> EmptyTree]

\* versions a tree can hold at any time
AnyVersions == {[content |-> 0, mtime |-> m] : m \in 1..MaxTime}
\* versions storage holds at first: the registry's later writes carry an older, the
\* same or a newer time
InitialVersions == {[content |-> 0, mtime |-> InitialTime]}

DiffIdle ==
    /\ storage = EmptyTree
    /\ frozen = EmptyTree
    /\ frozenExists = FALSE
    /\ archives = [d \in DiffIds |-> NoArchive]
    /\ manifests = [d \in DiffIds |-> NoManifest]
    /\ regOps = 0
    /\ diff = DiffProc0
    /\ diffStatus = "pending"
    /\ diffResult = NoDoc
    /\ diffRuns = 0
    /\ sync = SyncProc0
    /\ syncStatus = "pending"
    /\ syncResult = NoDoc
    /\ syncRuns = 0
    /\ emitted = {}
    /\ prevSync = NoPrevSync

\* no fix_broken.py run
NoFix == [pc |-> "idle", i |-> 0, fixed |-> 0, failed |-> 0]

\* no call of lib install_package
NoInstall == [pc |-> "idle"]

\* no broken-archive list on disk
NoFile == [exists |-> FALSE, lines |-> <<>>]

\* no integrity check has run
CheckerIdle ==
    /\ invalid = {}
    /\ broken_files = <<>>
    /\ BROKEN_FILE = NoFile

\* no scanner, repeated repair or extract_package_info call
AuxIdle ==
    /\ scan = [pc |-> "idle"]
    /\ repair = [pc |-> "idle"]
    /\ extract = [pc |-> "idle"]

\* a process about to start with every precondition met and a working sink
TasksIdle ==
    /\ precondition = "ok"
    /\ sinkFaulty = FALSE
    /\ exitCode = -1
    /\ temp_dirs = 0
    /\ fix = NoFix
    /\ install = NoInstall
    /\ calls = [p \in 1..MaxPackages |-> 0]
    /\ unitsFailed = 0

\* no refresh-side process has started
RefreshQuiet ==
    /\ script = "update_all"
    /\ packages = 0
    /\ PARALLEL_JOBS = 1
    /\ mainPc = "start"
    /\ nextPkg = 1
    /\ worker = [w \in Workers |-> IdleWorker]
    /\ tracker = NewTracker(0)
    /\ trackerLock = 0
    /\ progressDoc = NoDoc
    /\ refreshStatus = "pending"
    /\ summary = NoDoc
    /\ TasksIdle
    /\ CheckerIdle

RefreshIdle ==
    /\ RefreshQuiet
    /\ AuxIdle

\* a storage tree the registry has left, with its database file; an empty frozen tree,
\* nothing emitted yet
InitDiff ==
    /\ RefreshIdle
    /\ storage \in [Paths -> InitialVersions \cup {Absent}]
    /\ \A p \in Paths \ RegularPaths : Exists(storage[p])
    /\ frozen = EmptyTree
    /\ frozenExists = FALSE
    /\ archives = [d \in DiffIds |-> NoArchive]
    /\ manifests = [d \in DiffIds |-> NoManifest]
    /\ regOps = 0
    /\ diff = DiffProc0
    /\ diffStatus = "pending"
    /\ diffResult = NoDoc
    /\ diffRuns = 0
    /\ sync = SyncProc0
    /\ syncStatus = "pending"
    /\ syncResult = NoDoc
    /\ syncRuns = 0
    /\ emitted = {}
    /\ prevSync = NoPrevSync

\* get_diff_files on its own: any storage tree, and any frozen tree that earlier cycles
\* can have left (no reserved-name file is ever copied to frozen)
InitAnalyze ==
    /\ RefreshIdle
    /\ storage \in [Paths -> AnyVersions \cup {Absent}]
    /\ frozen \in [Paths -> AnyVersions \cup {Absent}]
    /\ \A p \in Paths \ RegularPaths : frozen[p] = Absent
    /\ frozenExists = (FilesOf(frozen) # {})
    /\ archives = [d \in DiffIds |-> NoArchive]
    /\ manifests = [d \in DiffIds |-> NoManifest]
    /\ regOps = 0
    /\ diff = DiffProc0
    /\ diffStatus = "pending"
    /\ diffResult = NoDoc
    /\ diffRuns = 0
    /\ sync = SyncProc0
    /\ syncStatus = "pending"
    /\ syncResult = NoDoc
    /\ syncRuns = 0
    /\ emitted = {<<p, frozen[p]>> : p \in FilesOf(frozen)}
    /\ prevSync = NoPrevSync

Events == regOps + diffRuns + syncRuns

\* a refresh run is about to start; the snapshotter is idle (the long list is run one
\* or two threads wide)
InitRefresh ==
    /\ DiffIdle
    /\ script \in Scripts
    /\ packages \in ListSizes(script)
    /\ PARALLEL_JOBS \in 1..MaxJobs
    /\ packages > MaxPackagesAll => PARALLEL_JOBS <= 2
    /\ mainPc = "start"
    /\ nextPkg = 1
    /\ worker = [w \in Workers |-> IdleWorker]
    /\ tracker = NewTracker(0)
    /\ trackerLock = 0
    /\ progressDoc = NoDoc
    /\ refreshStatus = "pending"
    /\ summary = NoDoc
    /\ TasksIdle
    /\ CheckerIdle
    /\ AuxIdle

\* an integrity check about to start: any of the archives can be unreadable, and an
\* earlier run can have left in BROKEN_FILE nothing, an empty list, or the path
\* (written 0) of an archive that was broken then
CheckerInputs ==
    /\ invalid \in (IF script = "check_broken" THEN SUBSET (1..packages) ELSE {{}})
    /\ broken_files = <<>>
    /\ BROKEN_FILE \in
         (IF script = "check_broken"
          THEN {NoFile, [exists |-> TRUE, lines |-> <<>>],
                [exists |-> TRUE, lines |-> <<0>>]}
          ELSE {NoFile})

\* a refresh run or an integrity-check run is about to start
InitPool ==
    /\ DiffIdle
    /\ script \in PoolScripts
    /\ packages \in ListSizes(script)
    /\ PARALLEL_JOBS \in 1..MaxJobs
    /\ packages > MaxPackagesAll => PARALLEL_JOBS <= 2
    /\ mainPc = "start"
    /\ nextPkg = 1
    /\ worker = [w \in Workers |-> IdleWorker]
    /\ tracker = NewTracker(0)
    /\ trackerLock = 0
    /\ progressDoc = NoDoc
    /\ refreshStatus = "pending"
    /\ summary = NoDoc
    /\ TasksIdle
    /\ CheckerInputs
    /\ AuxIdle

\* a path of the broken-archive list about to be repaired, whatever is there now
InitRepair ==
    /\ RefreshQuiet
    /\ DiffIdle
    /\ scan = [pc |-> "idle"]
    /\ extract = [pc |-> "idle"]
    /\ repair \in [pc : {"remove"}, archive : ArchiveStates, before : {"absent"},
                    attempts : {0}, history : {<<>>}]

\* one path of the broken-archive list handed to extract_package_info
InitExtract ==
    /\ RefreshQuiet
    /\ DiffIdle
    /\ scan = [pc |-> "idle"]
    /\ repair = [pc |-> "idle"]
    /\ extract \in ExtractInputs

\* a scanner about to walk a storage directory
InitScan ==
    /\ RefreshQuiet
    /\ DiffIdle
    /\ repair = [pc |-> "idle"]
    /\ extract = [pc |-> "idle"]
    /\ scan \in ScanInputs

\* the entry points of the refresh side and the unit of lib/packages.py
TaskScripts == PoolScripts \cup {"fix_broken", "update_single", "install_package"}

\* the structural preconditions of each entry point
Preconditions(s) ==
    CASE s \in PoolScripts -> {"ok", "dir_missing"}
      [] s = "fix_broken" -> {"ok", "file_missing"}
      [] s = "update_single" -> {"ok", "dir_missing", "arg_missing"}
      [] OTHER -> {"ok"}

\* the sizes of the work list: update_single.py and install_package work on one package
TaskSizes(s) == IF s \in {"update_single", "install_package"} THEN {1} ELSE 0..MaxPackagesAll

\* any entry point about to start, its preconditions met or not, the sink working or not
InitTasks ==
    /\ DiffIdle
    /\ script \in TaskScripts
    /\ packages \in TaskSizes(script)
    /\ PARALLEL_JOBS \in (IF script \in PoolScripts THEN 1..MaxJobs ELSE {1})
    /\ mainPc = "start"
    /\ nextPkg = 1
    /\ worker = [w \in Workers |-> IdleWorker]
    /\ tracker = NewTracker(0)
    /\ trackerLock = 0
    /\ progressDoc = NoDoc
    /\ refreshStatus = "pending"
    /\ summary = NoDoc
    /\ precondition \in Preconditions(script)
    /\ sinkFaulty \in BOOLEAN
    /\ exitCode = -1
    /\ temp_dirs = 0
    /\ fix = NoFix
    /\ install \in (IF script = "install_package" THEN InstallInputs ELSE {NoInstall})
    /\ calls = [p \in 1..MaxPackages |-> 0]
    /\ unitsFailed = 0
    /\ CheckerInputs
    /\ AuxIdle

\* a call of lib install_package with a working sink, over every input
InitInstall ==
    /\ InitTasks
    /\ script = "install_package"
    /\ ~sinkFaulty

\* the registry process stores a new version of a file
RegistryWrite(p, m) ==
    /\ Events < MaxEvents
    /\ storage' = [storage EXCEPT ![p] = [content |-> regOps + 1, mtime |-> m]]
    /\ regOps' = regOps + 1
    /\ UNCHANGED <<frozen, frozenExists, archives, manifests, diff, diffStatus,
                   diffResult, diffRuns, sync, syncStatus, syncResult, syncRuns,
                   emitted, prevSync>>
    /\ UNCHANGED refreshVars

\* the registry process removes a file (an unpublished version)
RegistryDelete(p) ==
    /\ Events < MaxEvents
    /\ Exists(storage[p])
    /\ storage' = [storage EXCEPT ![p] = Absent]
    /\ regOps' = regOps + 1
    /\ UNCHANGED <<frozen, frozenExists, archives, manifests, diff, diffStatus,
                   diffResult, diffRuns, sync, syncStatus, syncResult, syncRuns,
                   emitted, prevSync>>
    /\ UNCHANGED refreshVars

\* identifiers are interchangeable: a run reuses an identifier that already names an
\* archive or takes the first one that names none
UsedIds == {d \in DiffIds : archives[d].present}
UsableIds == UsedIds \cup (IF "diff_1" \in UsedIds THEN {"diff_2"} ELSE {"diff_1"})

\* create_diff.py main(), lines 117-137: status running, mkdir of frozen and archives
DiffStart(d) ==
    /\ diff.pc \in {"idle", "done", "crashed"}
    /\ d \in UsableIds
    /\ Events < MaxEvents
    /\ diffRuns' = diffRuns + 1
    /\ diff' = [DiffProc0 EXCEPT !.pc = "analyze", !.id = d]
    /\ diffStatus' = "running"
    /\ diffResult' = NoDoc
    /\ frozenExists' = TRUE
    /\ UNCHANGED <<storage, frozen, archives, manifests, regOps, sync, syncStatus,
                   syncResult, syncRuns, emitted, prevSync>>
    /\ UNCHANGED refreshVars

\* main(), lines 139-167: get_diff_files; an empty diff set ends the run, otherwise
\* tarfile.open(archive_path, 'w:gz') creates or truncates the archive
DiffAnalyze ==
    /\ diff.pc = "analyze"
    /\ LET found == get_diff_files(storage, frozen)
       IN IF Len(found) = 0
          THEN /\ diff' = [diff EXCEPT !.pc = "done"]
               /\ diffStatus' = "completed"
               /\ diffResult' = [diffId |-> diff.id, filesCount |-> 0, files |-> <<>>,
                                 archive |-> FALSE]
               /\ UNCHANGED archives
          ELSE /\ diff' = [diff EXCEPT !.pc = "add", !.diff_files = found, !.i = 1,
                                       !.epoch = regOps,
                                       !.fresh = (FilesOf(frozen) = {})]
               /\ diffStatus' = "running"
               /\ archives' = [archives EXCEPT ![diff.id] =
                                  [members |-> <<>>, closed |-> FALSE, present |-> TRUE]]
               /\ UNCHANGED diffResult
    /\ UNCHANGED <<storage, frozen, frozenExists, manifests, regOps, diffRuns, sync,
                   syncStatus, syncResult, syncRuns, emitted, prevSync>>
    /\ UNCHANGED refreshVars

\* tar.add(src_file, arcname=rel_path): packs the version storage holds now; a file
\* that is gone raises FileNotFoundError, which nothing catches
DiffAdd ==
    /\ diff.pc = "add"
    /\ LET rel_path == diff.diff_files[diff.i]
       IN IF Exists(storage[rel_path])
          THEN /\ archives' = [archives EXCEPT ![diff.id].members =
                                  Append(@, [path |-> rel_path,
                                             version |-> storage[rel_path]])]
               /\ diff' = [diff EXCEPT !.pc = "stat"]
          ELSE /\ diff' = [diff EXCEPT !.pc = "crashed"]
               /\ UNCHANGED archives
    /\ UNCHANGED <<storage, frozen, frozenExists, manifests, regOps, diffStatus,
                   diffResult, diffRuns, sync, syncStatus, syncResult, syncRuns,
                   emitted, prevSync>>
    /\ UNCHANGED refreshVars

\* src_file.stat() and files_info.append: size and mtime of what storage holds now
DiffStat ==
    /\ diff.pc = "stat"
    /\ LET rel_path == diff.diff_files[diff.i]
           file_stat == storage[rel_path]
       IN IF Exists(file_stat)
          THEN diff' = [diff EXCEPT
                          !.files_info = Append(@, [path |-> rel_path,
                                                    size |-> SizeOf(file_stat),
                                                    mtime |-> IsoFormat(file_stat.mtime)]),
                          !.i = @ + 1,
                          !.pc = IF diff.i = Len(diff.diff_files) THEN "close" ELSE "add"]
          ELSE diff' = [diff EXCEPT !.pc = "crashed"]
    /\ UNCHANGED <<storage, frozen, frozenExists, archives, manifests, regOps,
                   diffStatus, diffResult, diffRuns, sync, syncStatus, syncResult,
                   syncRuns, emitted, prevSync>>
    /\ UNCHANGED refreshVars

\* main(), lines 181-204: the archive is closed, the manifest written, status completed;
\* newFrozen is what the step leaves in FROZEN_DIR
DiffFinishLeaving(newFrozen) ==
    /\ diff.pc = "close"
    /\ archives' = [archives EXCEPT ![diff.id].closed = TRUE]
    /\ manifests' = [manifests EXCEPT ![diff.id] =
                        [files |-> diff.files_info, present |-> TRUE,
                         epoch |-> diff.epoch, fresh |-> diff.fresh]]
    /\ emitted' = emitted \cup {<<archives[diff.id].members[k].path,
                                  archives[diff.id].members[k].version>> :
                                  k \in 1..Len(archives[diff.id].members)}
    /\ diffStatus' = "completed"
    /\ diffResult' = [diffId |-> diff.id, filesCount |-> Len(diff.diff_files),
                      files |-> [k \in 1..Len(diff.files_info) |-> diff.files_info[k].path],
                      archive |-> TRUE]
    /\ diff' = [diff EXCEPT !.pc = "done"]
    /\ frozen' = newFrozen
    /\ UNCHANGED <<storage, frozenExists, regOps, diffRuns, sync, syncStatus,
                   syncResult, syncRuns, prevSync>>
    /\ UNCHANGED refreshVars

\* a create_diff that freezes what it has just archived
DiffFinishFreezing ==
    DiffFinishLeaving([p \in Paths |-> IF p \in PathsOf(diff.files_info)
                                       THEN storage[p] ELSE frozen[p]])
\* create_diff.py writes under DIFF_ARCHIVES_DIR only
DiffFinish == DiffFinishLeaving(frozen)

\* sync_frozen.py main(), lines 53-78: DIFF_ID and manifest are required; the manifest
\* is read and the frozen directory created
SyncStart(d) ==
    /\ sync.pc \in {"idle", "done", "failed"}
    /\ Events < MaxEvents
    /\ syncRuns' = syncRuns + 1
    /\ syncResult' = NoDoc
    /\ prevSync' = IF sync.pc = "done"
                   THEN [present |-> TRUE, files_info |-> sync.files_info,
                         failed |-> sync.failed, epoch |-> sync.epoch,
                         endEpoch |-> sync.endEpoch, frozen |-> frozen]
                   ELSE prevSync
    /\ IF d = "" \/ ~manifests[d].present
       THEN /\ sync' = [SyncProc0 EXCEPT !.pc = "failed"]
            /\ syncStatus' = "failed"
            /\ UNCHANGED frozenExists
       ELSE /\ sync' = [SyncProc0 EXCEPT !.pc = "copy", !.id = d,
                                         !.files_info = manifests[d].files,
                                         !.idx = 1, !.epoch = regOps,
                                         !.manifestEpoch = manifests[d].epoch,
                                         !.fresh = manifests[d].fresh]
            /\ syncStatus' = "running"
            /\ frozenExists' = TRUE
    /\ UNCHANGED <<storage, frozen, archives, manifests, regOps, diff, diffStatus,
                   diffResult, diffRuns, emitted>>
    /\ UNCHANGED refreshVars

\* the else branch counted as a failure
count_missing(proc) == [proc EXCEPT !.failed = @ + 1, !.idx = @ + 1]
\* "else: log('WARN', ...)": the entry is passed over, no counter moves
skip_missing(proc) == [proc EXCEPT !.idx = @ + 1]

\* one turn of the loop over files_info: copy2 when the source exists, a warning
\* and nothing else when it does not
SyncCopy ==
    /\ sync.pc = "copy"
    /\ sync.idx <= Len(sync.files_info)
    /\ LET rel_path == sync.files_info[sync.idx].path
       IN IF Exists(storage[rel_path])
          THEN /\ frozen' = [frozen EXCEPT ![rel_path] = copy2(storage[rel_path])]
               /\ sync' = [sync EXCEPT !.copied = @ + 1, !.idx = @ + 1]
          ELSE /\ sync' = skip_missing(sync)
               /\ UNCHANGED frozen
    /\ UNCHANGED <<storage, frozenExists, archives, manifests, regOps, diff, diffStatus,
                   diffResult, diffRuns, syncStatus, syncResult, syncRuns, emitted,
                   prevSync>>
    /\ UNCHANGED refreshVars

\* the same turn when mkdir or copy2 raises before the destination is written
SyncCopyRaises ==
    /\ sync.pc = "copy"
    /\ sync.idx <= Len(sync.files_info)
    /\ Exists(storage[sync.files_info[sync.idx].path])
    /\ sync' = [sync EXCEPT !.failed = @ + 1, !.idx = @ + 1]
    /\ UNCHANGED <<storage, frozen, frozenExists, archives, manifests, regOps, diff,
                   diffStatus, diffResult, diffRuns, syncStatus, syncResult, syncRuns,
                   emitted, prevSync>>
    /\ UNCHANGED refreshVars

\* main(), lines 99-111: final status and result
SyncFinish ==
    /\ sync.pc = "copy"
    /\ sync.idx > Len(sync.files_info)
    /\ sync' = [sync EXCEPT !.pc = "done", !.endEpoch = regOps]
    /\ syncStatus' = FinalStatus(sync.failed)
    /\ syncResult' = [diffId |-> sync.id, copiedFiles |-> sync.copied,
                      failedFiles |-> sync.failed]
    /\ UNCHANGED <<storage, frozen, frozenExists, archives, manifests, regOps, diff,
                   diffStatus, diffResult, diffRuns, syncRuns, emitted, prevSync>>
    /\ UNCHANGED refreshVars

NextDiff ==
    \/ \E p \in RegularPaths, m \in 1..MaxTime : RegistryWrite(p, m)
    \/ \E p \in RegularPaths : RegistryDelete(p)
    \/ \E d \in DiffIds : DiffStart(d)
    \/ DiffAnalyze
    \/ DiffAdd
    \/ DiffStat
    \/ DiffFinish
    \/ \E d \in DiffIds \cup {""} : SyncStart(d)
    \/ SyncCopy
    \/ SyncFinish
\* ------------------------------------------------------- specifications
\* a refresh run; the snapshotter is not running
SpecRefresh == InitRefresh /\ [][NextRefresh]_vars

\* a run of one of the scripts that use a thread pool; the snapshotter is not running
SpecPool == InitPool /\ [][NextRefresh]_vars

\* a run of any entry point of the refresh side; the snapshotter is not running
SpecTasks == InitTasks /\ [][NextTasks]_vars

\* one call of lib install_package
SpecInstall == InitInstall /\ [][NextInstall]_vars

\* create_diff.py and sync_frozen.py runs beside the registry process; no refresh run
SpecDiff == InitDiff /\ [][NextDiff]_vars

\* create_diff.py up to the end of its analyze step, on any pair of trees
NextAnalyze ==
    \/ \E d \in DiffIds : DiffStart(d)
    \/ DiffAnalyze
SpecAnalyze == InitAnalyze /\ [][NextAnalyze]_vars

\* the same, where mkdir or shutil.copy2 may raise
NextDiffFaults ==
    \/ NextDiff
    \/ SyncCopyRaises
SpecDiffFaults == InitDiff /\ [][NextDiffFaults]_vars

\* repeated calls of reinstall_package for one path
SpecRepair == InitRepair /\ [][NextRepair]_vars

\* one call of extract_package_info of fix_broken.py
SpecExtract == InitExtract /\ [][NextExtract]_vars

\* one scan of the storage directory by one of the four scanners
SpecScan == InitScan /\ [][NextScan]_vars

\* ------------------------------------------------------------ claims
\* C1: when a refresh run has finished, success + failed of the returned summary equals
\* the number of packages of the work list, and the success count of the last persisted
\* progress document equals the success count of the summary (a non-empty list always
\* yields both a summary and a persisted document).
C1_SummaryCountsAll ==
    mainPc = "done" =>
        /\ summary # NoDoc => summary.success + summary.failed = packages
        /\ progressDoc # NoDoc => summary # NoDoc /\ progressDoc.success = summary.success
        /\ packages > 0 => summary # NoDoc /\ progressDoc # NoDoc

\* a finished run over the long list, two threads wide, with successes and failures
C1_Witness ==
    /\ mainPc = "done"
    /\ packages > FlushEvery
    /\ PARALLEL_JOBS > 1
    /\ summary # NoDoc
    /\ summary.success > 1
    /\ summary.failed > 1
    /\ progressDoc # NoDoc
    /\ progressDoc.current = packages

\* C2: every file version (content and modification time) held in the frozen tree was
\* packed into a diff archive emitted before.
C2_FrozenWasTransferred ==
    \A p \in Paths : Exists(frozen[p]) => <<p, frozen[p]>> \in emitted

\* a sync has replayed, with no failed copy, a manifest analysed against an empty frozen
\* tree, and storage has not changed since that analyze
RoundTripDone ==
    /\ sync.pc = "done"
    /\ sync.failed = 0
    /\ sync.fresh
    /\ sync.manifestEpoch = regOps

C4_AnalyzeExact ==
    [][(diff.pc = "analyze" /\ diff'.pc # "analyze") =>
          /\ PathsOfList(diff'.diff_files) =
                {p \in Paths : /\ Exists(storage[p])
                               /\ NameOf(p) \notin exclude_names
                               /\ \/ ~Exists(frozen[p])
                                  \/ storage[p].mtime > frozen[p].mtime}
          /\ Cardinality(PathsOfList(diff'.diff_files)) = Len(diff'.diff_files)]_vars

\* an analyze has just listed a file newer than its frozen copy and left out a file
\* older than its frozen copy, a file as old as its frozen copy and the reserved file
C4_Witness ==
    /\ diff.pc = "add"
    /\ Exists(storage[".verdaccio-db.json"])
    /\ \E p \in RegularPaths :
          /\ Exists(frozen[p])
          /\ storage[p].mtime > frozen[p].mtime
          /\ diff.diff_files = <<p>>
    /\ \E p \in RegularPaths :
          /\ Exists(storage[p])
          /\ storage[p].mtime <= frozen[p].mtime

SecondSyncDone ==
    /\ sync.pc = "done"
    /\ prevSync.present
    /\ prevSync.files_info = sync.files_info

C7_OnlySyncWritesFrozen ==
    [][/\ diff' # diff => frozen' = frozen
       /\ frozen' # frozen =>
             /\ sync.pc = "copy"
             /\ sync'.copied = sync.copied + 1
             /\ archives' = archives
             /\ manifests' = manifests
       /\ frozenExists => frozenExists']_vars

\* a create_diff run has archived files while the frozen tree held files
C7_Witness ==
    /\ diff.pc = "done"
    /\ diffResult # NoDoc
    /\ diffResult.archive
    /\ ~diff.fresh
    /\ FilesOf(frozen) # {}

\* C8: once the manifest of an identifier is written, neither it nor the archive of
\* that identifier changes again.
C8_SnapshotImmutable ==
    [][\A d \in DiffIds :
          manifests[d].present =>
              /\ manifests'[d].files = manifests[d].files
              /\ manifests'[d].present
              /\ archives'[d] = archives[d]]_vars

\* C9: a create_diff run produces an archive and a manifest if and only if its diff set
\* is not empty; when produced, archive members, manifest paths and diff set are the same
\* paths; with an empty diff set nothing is written and the run reports zero files and
\* status completed.
C9_ArchiveIffNonEmpty ==
    [][/\ (diff.pc \notin {"done", "crashed"} /\ diff'.pc \in {"done", "crashed"}) =>
             IF Len(diff'.diff_files) > 0
             THEN /\ archives'[diff.id].present
                  /\ archives'[diff.id].closed
                  /\ manifests'[diff.id].present
                  /\ PathsOf(archives'[diff.id].members) = PathsOfList(diff'.diff_files)
                  /\ PathsOf(manifests'[diff.id].files) = PathsOfList(diff'.diff_files)
             ELSE /\ archives' = archives
                  /\ manifests' = manifests
                  /\ diffResult'.filesCount = 0
                  /\ diffStatus' = "completed"
       /\ (archives' # archives \/ manifests' # manifests) => Len(diff'.diff_files) > 0]_vars

\* the manifest entry the sync loop is at, when there is one
AtMissingSource ==
    /\ sync.pc = "copy"
    /\ sync.idx <= Len(sync.files_info)
    /\ ~Exists(storage[sync.files_info[sync.idx].path])

\* C10: a manifest entry whose source is absent from storage is passed over: no counter
\* moves, the frozen tree and the status are left alone, and the loop goes on to the
\* next entry; the run ends only after the last entry, and ends completed exactly when
\* no copy failed.
C10_AbsentSourceSkipped ==
    [][/\ (AtMissingSource /\ sync' # sync) =>
             /\ sync'.pc = "copy"
             /\ sync'.idx = sync.idx + 1
             /\ sync'.failed = sync.failed
             /\ sync'.copied = sync.copied
             /\ frozen' = frozen
             /\ syncStatus' = syncStatus
       /\ (sync.pc = "copy" /\ sync'.pc = "done") =>
             /\ sync.idx = Len(sync.files_info) + 1
             /\ sync.copied + sync.failed <= Len(sync.files_info)
             /\ (syncStatus' = "completed") <=> (sync.failed = 0)]_vars

\* a sync run ended completed after copying one entry and passing over a missing one
C10_Witness ==
    /\ sync.pc = "done"
    /\ sync.failed = 0
    /\ sync.copied = 1
    /\ Len(sync.files_info) = 2
    /\ syncStatus = "completed"

\* the units of a pool run: work items already handed to a thread and not held by one
Returned(p) == p < nextPkg /\ \A w \in Workers : worker[w].pkg # p

\* every work item has at most one call of tracker.increment: none until its install has
\* left the subprocess, one from then on
IncrementedOnce ==
    /\ \A p \in 1..MaxPackages : calls[p] <= 1
    /\ \A p \in 1..MaxPackages : Returned(p) => calls[p] = 1
    /\ \A w \in Workers :
         /\ worker[w].pc \in {"subprocess", "finally"} => calls[worker[w].pkg] = 0
         /\ worker[w].pc = "locked" => calls[worker[w].pkg] = 1
    /\ (mainPc = "done" /\ precondition = "ok") =>
           \A p \in 1..packages : calls[p] = 1

\* C11: in a refresh run every dispatched package gets exactly one call of
\* tracker.increment, whatever the exit path of its install, and the call of a failed
\* install carries the package and its error message.
C11_IncrementOnceWithError ==
    script \in Scripts =>
        /\ IncrementedOnce
        /\ \A w \in Workers :
             (worker[w].pc = "locked" /\ ~worker[w].success) => worker[w].error_msg # ""

\* the failed installs that have left the subprocess and are not yet in the counters
FailedUncounted ==
    Cardinality({w \in Workers : worker[w].pc \in {"finally", "locked"}
                                 /\ ~worker[w].success})

\* C12: a refresh run has a terminal status or a summary only when main() is past the
\* pool, every package of the list was dispatched, every thread is back and every unit
\* counted; each failed unit, a timed-out one included, is counted as one failure, and
\* the run still counts every other unit.
C12_TerminalAfterAllCounted ==
    (script \in Scripts /\ packages > 0) =>
        /\ (refreshStatus \in {"completed", "completed_with_errors", "failed"}
            \/ summary # NoDoc) =>
               /\ mainPc = "done"
               /\ nextPkg = packages + 1
               /\ \A w \in Workers : worker[w].pc = "idle"
               /\ tracker.current = packages
               /\ \A p \in 1..packages : calls[p] = 1
               /\ summary.failed = unitsFailed
               /\ summary.success = packages - unitsFailed
        /\ mainPc = "pool" => tracker.failed + FailedUncounted = unitsFailed

\* a finished update_all run, two threads wide, in which one install timed out and the
\* other packages were still installed
C12_Witness ==
    /\ script = "update_all"
    /\ mainPc = "done"
    /\ PARALLEL_JOBS = 2
    /\ packages = MaxPackagesAll
    /\ summary # NoDoc
    /\ summary.failed = 1
    /\ summary.success = packages - 1
    /\ tracker.errors = <<[package |-> 1, error |-> "timeout (300s)"]>>
    /\ refreshStatus = "completed_with_errors"

\* the units in flight: started by a pool thread and not yet completed
InFlight == {w \in Workers : worker[w].pc # "idle"}

\* C13: at every moment of a refresh run or an integrity-check run at most PARALLEL_JOBS
\* units (installer invocations, archive validations) are in flight.
C13_InFlightAtMostPoolWidth ==
    script \in PoolScripts => Cardinality(InFlight) <= PARALLEL_JOBS

\* a pool narrower than the number of threads the model has is full while work is left
C13_Witness ==
    /\ PARALLEL_JOBS < MaxJobs
    /\ Cardinality(InFlight) = PARALLEL_JOBS
    /\ \A w \in InFlight : worker[w].pc = "subprocess"
    /\ nextPkg <= packages
    /\ script = "check_broken"

\* C17: tracker.increment behaves as if its calls ran one after another: after every
\* step current is the number of calls that have returned, current = success + failed
\* (broken <= current for the checker); every progress document written is the
\* counters as they are after the call that wrote it, and the current value of a
\* document is never below that of the document it replaces.
C17_IncrementLinearizable ==
    [][/\ LET called == Cardinality({p \in 1..MaxPackages : calls'[p] >= 1})
              inside == Cardinality({w \in Workers : worker'[w].pc = "locked"})
          IN tracker'.current = called - inside
       /\ script \in Scripts => tracker'.current = tracker'.success + tracker'.failed
       /\ script = "check_broken" => tracker'.broken <= tracker'.current
       /\ progressDoc' # progressDoc =>
            /\ progressDoc'.current = tracker'.current
            /\ script \in Scripts =>
                 /\ progressDoc'.success = tracker'.success
                 /\ progressDoc'.failed = tracker'.failed
                 /\ progressDoc'.current = progressDoc'.success + progressDoc'.failed
            /\ script = "check_broken" =>
                 /\ progressDoc'.broken = tracker'.broken
                 /\ progressDoc'.broken <= progressDoc'.current
            /\ progressDoc # NoDoc => progressDoc'.current >= progressDoc.current]_vars

\* a pool of two threads over the long list: the document of the tenth call is on disk
\* and the last call, which will replace it, holds the lock
C17_Witness ==
    /\ packages > FlushEvery
    /\ PARALLEL_JOBS > 1
    /\ progressDoc # NoDoc
    /\ progressDoc.current = FlushEvery
    /\ progressDoc.failed > 0
    /\ \E w \in Workers : worker[w].pc = "locked" /\ worker[w].cur = FlushEvery

C15_FailedOnlyOnPrecondition ==
    (refreshStatus = "failed" \/ exitCode \notin {-1, 0}) => precondition # "ok"

\* the values the spec gives the status field
StatusStates == {"pending", "running", "completed", "completed_with_errors", "failed"}

\* C16: in every reachable state of every task the status of the persisted status
\* document is one of pending, running, completed, completed_with_errors, failed.
C16_StatusInAllowedSet ==
    /\ refreshStatus \in StatusStates
    /\ diffStatus \in StatusStates
    /\ syncStatus \in StatusStates

\* the calls of tracker.increment that have returned
ReturnedCalls ==
    Cardinality({p \in 1..MaxPackages : calls[p] >= 1})
        - Cardinality({w \in Workers : worker[w].pc = "locked"})

\* C18: with a sink on which any write can fail, no run is aborted: the counters in
\* memory count every returned call, a run that has not finished can always take a
\* step, and a finished run has processed every unit and returns the summary that
\* the outcomes of its units determine, the one a working sink gives.
C18_SinkFailureSwallowed ==
    sinkFaulty =>
        /\ mainPc # "aborted"
        /\ mainPc # "done" => ENABLED NextTasks
        /\ script \in PoolScripts => tracker.current = ReturnedCalls
        /\ (mainPc = "done" /\ precondition = "ok" /\ packages > 0) =>
             /\ script \in Scripts =>
                  /\ tracker.current = packages
                  /\ summary = [totalPackages |-> packages,
                                success |-> packages - unitsFailed,
                                failed |-> unitsFailed]
                  /\ exitCode = 0
             /\ script = "check_broken" =>
                  /\ tracker.current = packages
                  /\ summary.totalArchives = packages
                  /\ summary.brokenArchives = unitsFailed
                  /\ exitCode = 0
             /\ script = "fix_broken" =>
                  /\ fix.i = packages + 1
                  /\ summary = [totalBroken |-> packages,
                                fixed |-> packages - unitsFailed,
                                failed |-> unitsFailed]
                  /\ exitCode = 0

\* a finished update_all run in which every write of the status and of the progress
\* document failed, with installs that succeeded and installs that failed
C18_Witness ==
    /\ sinkFaulty
    /\ script = "update_all"
    /\ mainPc = "done"
    /\ packages = MaxPackagesAll
    /\ refreshStatus = "pending"
    /\ progressDoc = NoDoc
    /\ summary # NoDoc
    /\ summary.success > 0
    /\ summary.failed > 0

\* the installer units between the creation of their directory and its removal
UnitsWithDir ==
    Cardinality({w \in Workers : worker[w].pc = "subprocess" /\ script # "check_broken"})
        + (IF fix.pc = "subprocess" THEN 1 ELSE 0)
        + (IF script = "update_single" /\ mainPc = "install" THEN 1 ELSE 0)
        + (IF install.pc \in {"subprocess", "typesync", "types_install"} THEN 1 ELSE 0)

\* the units in flight of any entry point
UnitsInFlight ==
    Cardinality(InFlight)
        + (IF fix.pc = "subprocess" THEN 1 ELSE 0)
        + (IF script = "update_single" /\ mainPc = "install" THEN 1 ELSE 0)
        + (IF install.pc \in {"subprocess", "typesync", "types_install", "report"}
           THEN 1 ELSE 0)

\* C19: the temporary directories that exist are exactly those of the installer units
\* whose subprocess has not ended: a unit on its way to report its completion or to
\* return has removed its directory whatever the exit path, there are never more
\* directories than units in flight, and none is left when the run has finished.
C19_TempDirRemoved ==
    /\ temp_dirs = UnitsWithDir
    /\ temp_dirs <= UnitsInFlight
    /\ mainPc = "done" => temp_dirs = 0

\* an update_all thread whose install timed out is about to report it, its directory
\* gone, while the install of another thread still runs in its own directory
C19_Witness ==
    /\ script = "update_all"
    /\ temp_dirs = 1
    /\ \E w, v \in Workers :
         /\ worker[w].pc = "finally"
         /\ worker[w].error_msg = "timeout (300s)"
         /\ worker[v].pc = "subprocess"

\* the error kinds of the spec's taxonomy that a message falls under
KindsOf(m) ==
    {k \in {"UpstreamUnavailable", "RegistryOverloaded", "NoMatchingVersion", "Timeout",
            "Generic"} :
       CASE k = "UpstreamUnavailable" ->
              m.text = "git dependency (git not available in container)"
         [] k = "RegistryOverloaded" ->
              m.text = "socket timeout (verdaccio/proxy overloaded)"
         [] k = "NoMatchingVersion" ->
              m.text = "no matching version for transitive dependency"
         [] k = "Timeout" -> m.text = "timeout (300s)"
         [] OTHER -> m.text \in {"stderr", "stdout", "str(e)", ""}}

Elements(s) == {s[k] : k \in 1..Len(s)}

C23_PersistedAsDiscovered ==
    (/\ script = "check_broken"
     /\ mainPc = "pool"
     /\ tracker.current = packages) =>
        /\ BROKEN_FILE.exists
        /\ Elements(broken_files) \subseteq Elements(BROKEN_FILE.lines)

\* C24: after an integrity-check run that ended normally the persisted broken-archive
\* list exists and holds exactly the broken paths that run found, a run over zero
\* archives included.
C24_ListRewrittenEveryRun ==
    (/\ script = "check_broken"
     /\ mainPc = "done"
     /\ exitCode = 0) =>
        BROKEN_FILE = [exists |-> TRUE, lines |-> broken_files]

Attempts == {repair.history[k] : k \in 1..Len(repair.history)}

\* C25: every repair attempt is classified by how the installer ended and what is at
\* the expected path afterwards: failed when the installer exited non-zero, timed out
\* or raised; failed when it exited 0 and the archive there cannot be read; fixed when
\* it exited 0 and the archive there can be read; fixed when it exited 0 and nothing
\* is there.
C25_RepairClassification ==
    repair.pc # "idle" =>
        \A h \in Attempts :
            /\ h.outcome \in {"nonzero", "timeout", "exception"} => ~h.success
            /\ (h.outcome = "ok" /\ h.after = "invalid") => ~h.success
            /\ (h.outcome = "ok" /\ h.after = "valid") => h.success
            /\ (h.outcome = "ok" /\ h.after = "absent") => h.success

\* the path has been through one attempt of each kind
C25_Witness ==
    /\ repair.pc = "remove"
    /\ Len(repair.history) = 3
    /\ repair.history[1].outcome = "ok" /\ repair.history[1].after = "absent"
    /\ repair.history[1].before = "invalid" /\ repair.history[1].success
    /\ repair.history[2].outcome = "ok" /\ repair.history[2].after = "invalid"
    /\ ~repair.history[2].success
    /\ repair.history[3].outcome = "timeout" /\ ~repair.history[3].success

\* on every attempt so far the installer ran and exited 0, and the registry left the
\* path absent every time
AlwaysAbsent ==
    \A h \in Attempts : h.ran /\ h.outcome = "ok" /\ h.m = "absent"

\* on every attempt so far the installer ran and exited 0, and the registry re-created
\* an unreadable archive every time
AlwaysInvalid ==
    \A h \in Attempts : h.ran /\ h.outcome = "ok" /\ h.m = "invalid"

\* C26: when on every attempt the installer exited 0 and the registry either always
\* left the path absent or always re-created an unreadable archive, all attempts on
\* the path have the same classification: fixed every time in the first case, failed
\* every time in the second, whatever was at the path before the first attempt.
C26_RepairStable ==
    repair.pc # "idle" =>
        /\ (AlwaysAbsent \/ AlwaysInvalid) =>
              \A g, h \in Attempts : g.success = h.success
        /\ AlwaysAbsent => \A h \in Attempts : h.success
        /\ AlwaysInvalid => \A h \in Attempts : ~h.success

\* an unreadable archive has been repaired MaxAttempts times, the installer exiting 0
\* and the registry leaving the path absent each time
C26_Witness ==
    /\ repair.pc = "remove"
    /\ Len(repair.history) = MaxAttempts
    /\ AlwaysAbsent
    /\ repair.history[1].before = "invalid"
    /\ \A h \in Attempts : h.success

\* the identity of the package the modelled path belongs to
ExpectedName ==
    IF extract.scope = <<>> THEN extract.name
    ELSE extract.scope \o <<"/">> \o extract.name

\* C27: for an archive path of the documented layout extract_package_info returns the
\* package identity and, as the version, exactly the version V of the file name with
\* nothing after it; for a file name without a version it returns 'latest'.
C27_VersionExact ==
    extract.pc = "returned" =>
        /\ extract.package_name = ExpectedName
        /\ extract.version = IF extract.V = <<>> THEN Latest ELSE extract.V

\* '.hidden', '-flag-like' and 'data.json'
ExcludedExamples ==
    {<<".", "h", "i", "d", "d", "e", "n">>,
     <<"-", "f", "l", "a", "g", "-", "l", "i", "k", "e">>,
     <<"d", "a", "t", "a", ".", "j", "s", "o", "n">>}

\* 'lodash' and 'valid-name'
IncludedExamples ==
    {<<"l", "o", "d", "a", "s", "h">>,
     <<"v", "a", "l", "i", "d", "-", "n", "a", "m", "e">>}

C29_NoInvalidNameDispatched ==
    scan.pc = "returned" =>
        \A n \in scan.result :
            /\ n # <<>>
            /\ ~startswith(n, "-")
            /\ ~startswith(n, ".")
            /\ \A k \in 1..Len(n) : n[k] \in RestChars

\* C30: no scanner returns an entry whose package.json has an empty versions map or an
\* 'unpublished' time.
C30_IneligibleNeverSelected ==
    scan.pc = "returned" =>
        \A e \in scan.listing :
            e.meta \in {"empty_versions", "unpublished"} => FullName(e) \notin scan.result

\* C31: at every point of every sequence of create_diff runs the manifest of a diff id
\* is on disk only beside an archive of that id that has been written to its end and
\* closed, and sync_frozen never copies from the manifest of a diff whose archive is
\* not closed.
C31_ManifestOnlyWithClosedArchive ==
    /\ \A d \in DiffIds :
          manifests[d].present => archives[d].present /\ archives[d].closed
    /\ sync.pc = "copy" => archives[sync.id].closed

\* C39: a create_diff or sync_frozen process that has written status running and has
\* ended, however it ended, has left a terminal status in its status document.
C39_EndedRunHasTerminalStatus ==
    /\ diff.pc \in {"done", "crashed"} => diffStatus \in {"completed", "failed"}
    /\ sync.pc \in {"done", "failed"} =>
          syncStatus \in {"completed", "completed_with_errors", "failed"}

\* C40: every entry of the manifest written for a closed archive records the size and
\* the modification time of the file version packed into that archive under the same
\* path.
C40_ManifestDescribesPackedVersion ==
    \A d \in DiffIds :
        (manifests[d].present /\ archives[d].closed) =>
            /\ Len(manifests[d].files) = Len(archives[d].members)
            /\ \A k \in 1..Len(manifests[d].files) :
                  LET entry == manifests[d].files[k]
                      member == archives[d].members[k]
                  IN /\ entry.path = member.path
                     /\ entry.size = SizeOf(member.version)
                     /\ entry.mtime = IsoFormat(member.version.mtime)


\* the terminal statuses the specification names
TerminalStatuses == {"completed", "completed_with_errors", "failed"}

\* C32: within one run of a task whose sink works, a unit of work is in flight only
\* under status running, a finished run has left one of the terminal statuses completed,
\* completed_with_errors or failed, and a terminal status, once written, is never
\* replaced by that run (update_single.py called without its argument writes no status
\* and is not taken for a run).
C32_StatusLifecycle ==
    [][(~sinkFaulty /\ precondition # "arg_missing") =>
          /\ UnitsInFlight' > 0 /\ script # "install_package" => refreshStatus' = "running"
          /\ refreshStatus \in TerminalStatuses => refreshStatus' = refreshStatus
          /\ (mainPc' = "done" /\ script # "install_package") =>
                 refreshStatus' \in TerminalStatuses]_vars

C34_RecentErrorsOnDisk ==
    (script \in Scripts /\ progressDoc # NoDoc) =>
        LET n == Min(20, progressDoc.failed)
        IN /\ Len(progressDoc.errors) <= 20
           /\ Len(progressDoc.errors) = n
           /\ \A k \in 1..Len(progressDoc.errors) :
                /\ progressDoc.errors[k].package \in 1..packages
                /\ progressDoc.errors[k].error # ""
                /\ \A j \in 1..Len(progressDoc.errors) :
                     progressDoc.errors[j].package = progressDoc.errors[k].package => j = k

\* C35: in the repair of a path the installer runs only after the removal step: while
\* the installer is in flight the file that was at the path when the attempt began is
\* gone, an attempt whose removal raised never ran the installer and left the path as
\* it was, and what an attempt that ran the installer leaves at the path is what the
\* registry stored there during the run, or nothing.
C35_RemovedBeforeInstall ==
    repair.pc # "idle" =>
        /\ repair.pc = "install" => repair.archive = "absent"
        /\ \A h \in Attempts :
             /\ h.ran => h.after = h.m
             /\ ~h.ran => h.outcome = "exception" /\ h.before # "absent"
                          /\ h.after = h.before /\ ~h.success

\* the installer is in flight for a path that held an unreadable archive, after an
\* attempt whose removal raised
C35_Witness ==
    /\ repair.pc = "install"
    /\ repair.before = "invalid"
    /\ repair.archive = "absent"
    /\ Len(repair.history) = 1
    /\ ~repair.history[1].ran

\* C36: a repair run goes through the list one path at a time and in order: at most one
\* installer is in flight, the path in flight is the one after the paths counted so
\* far, the position never moves but to the next path when its result is counted, and a
\* finished run has counted every listed path once: fixed + failed = the length of the
\* list.
C36_RepairSequential ==
    [][script = "fix_broken" /\ precondition = "ok" =>
          /\ temp_dirs' <= 1
          /\ (fix'.pc = "subprocess") <=> (temp_dirs' = 1)
          /\ fix'.pc # "idle" =>
               /\ fix'.i \in 1..(packages + 1)
               /\ fix'.fixed + fix'.failed = fix'.i - 1
               /\ fix'.pc = "subprocess" => fix'.i <= packages
          /\ fix.pc # "idle" =>
               /\ fix'.i \in {fix.i, fix.i + 1}
               /\ fix'.i = fix.i + 1 <=> fix.pc = "subprocess"
          /\ mainPc' = "done" =>
               /\ summary'.totalBroken = packages
               /\ summary'.fixed + summary'.failed = packages
               /\ packages > 0 => summary'.fixed = fix'.fixed /\ summary'.failed = fix'.failed
                                /\ fix'.i = packages + 1]_vars

\* a finished repair of a list of three paths, some fixed and some not
C36_Witness ==
    /\ script = "fix_broken"
    /\ mainPc = "done"
    /\ packages = MaxPackagesAll
    /\ summary # NoDoc
    /\ summary.fixed > 0
    /\ summary.failed > 0
    /\ summary.fixed + summary.failed = packages

\* C37: in every state of an integrity-check run the tracker's broken counter is at most
\* the length of the in-memory broken list, and that length is at most the tracker's
\* current plus the number of checks in flight; once every archive was dispatched and
\* every thread is back, the counter equals the length of the list and the list holds
\* no archive twice.
C37_BrokenCounterTracksList ==
    script = "check_broken" =>
        /\ tracker.broken <= Len(broken_files)
        /\ Len(broken_files) <= tracker.current + Cardinality(InFlight)
        /\ (mainPc \in {"pool", "done"} /\ nextPkg > packages /\ InFlight = {}) =>
             /\ tracker.broken = Len(broken_files)
             /\ tracker.current = packages
             /\ \A j, k \in 1..Len(broken_files) :
                  broken_files[j] = broken_files[k] => j = k

\* two checks in flight have both appended their archive to the list and neither has
\* been counted yet, after a first unreadable archive was counted
C37_Witness ==
    /\ script = "check_broken"
    /\ mainPc = "pool"
    /\ Len(broken_files) = 3
    /\ tracker.broken = 1
    /\ tracker.current = 1
    /\ Cardinality(InFlight) = 2
    /\ \A w \in InFlight : worker[w].pc \in {"finally", "locked"}

\* C38 as stated: after every attempt on a path, whatever was there before is gone: the
\* path holds what the registry stored during the attempt or nothing, and after an
\* attempt counted fixed it is absent or holds a readable archive.
C38_OriginalNeverLeft ==
    repair.pc # "idle" =>
        \A h \in Attempts :
            /\ h.after = h.m
            /\ h.success => h.after \in {"absent", "valid"}

\* C38: after every attempt on a path whose removal step did not raise, whatever was
\* there before is gone: the path holds what the registry stored during the attempt or
\* nothing, and after an attempt counted fixed it is absent or holds a readable
\* archive; an attempt whose removal raised is counted failed, has not run the
\* installer and leaves the path as it was.
C38_OriginalGoneUnlessRemovalRaised ==
    repair.pc # "idle" =>
        \A h \in Attempts :
            /\ h.success => h.ran /\ h.after \in {"absent", "valid"}
            /\ h.ran => h.after = h.m
            /\ (h.ran /\ h.outcome \in {"nonzero", "timeout", "exception"}) =>
                  ~h.success /\ h.after = h.m
            /\ ~h.ran => ~h.success /\ h.after = h.before /\ h.before # "absent"

\* an unreadable archive was removed and the installer timed out leaving nothing, then
\* the installer exited 0 and the registry stored a readable archive
C38_Witness ==
    /\ repair.pc = "remove"
    /\ Len(repair.history) = 2
    /\ repair.history[1].before = "invalid" /\ repair.history[1].ran
    /\ repair.history[1].outcome = "timeout" /\ repair.history[1].after = "absent"
    /\ ~repair.history[1].success
    /\ repair.history[2].ran /\ repair.history[2].outcome = "ok"
    /\ repair.history[2].after = "valid" /\ repair.history[2].success
====
